---- MODULE Spec2Model ----
(***************************************************************************)
(* Coach Monitor web interface (frontend).                                 *)
(*                                                                         *)
(*   StreamClient  src/frontend/src/data/replayEngine.ts  (lines 374-568)  *)
(*   ReplayEngine  src/frontend/src/data/replayEngine.ts  (lines 1-273)    *)
(*   useStore      src/frontend/src/lib/formatters.ts     (lines 124-487)  *)
(*                                                                         *)
(* Each class is a state machine of its own; a specification below runs    *)
(* one of them and leaves the variables of the others at their initial     *)
(* values.                                                                 *)
(***************************************************************************)
EXTENDS Integers, Sequences, FiniteSets, TLC

(***************************************************************************)
(* Bounds of the model.                                                    *)
(***************************************************************************)
\* sockets of one client that are not closed at the same time
MaxSockets == 2
\* largest reconnectAttempts reached in the connection-level specification
MaxAttempts == 2
\* frames received by one client in the connection-level specification
StreamFrames == 1
\* largest reconnectAttempts reached in the frame-level specification
FramesAttempts == 1
\* sockets that are not closed at the same time in the frame-level specification
FramesSockets == 1
\* frames received by one client in the frame-level specification
MaxFrames == 3
\* largest envelope seq on the wire
MaxSeq == 3
\* largest reconnectAttempts reached in the backoff specification
BackoffAttempts == 12
\* calls of store.handleMessage in the store specification
MaxStoreMsgs == 2
\* advances of the wall clock in the store specification
MaxTicks == 1
\* messages beyond the capacity of a ring buffer in the ring-buffer specification
RingExtra == 3
\* fetches of load() in flight at the same time
MaxPendingLoads == 2
\* animation-frame callbacks in flight whose handle was overwritten
MaxOrphans == 1
\* fetches of the Sessions page in flight at the same time
MaxRequests == 2
\* recording sessions the relay starts
MaxRecordings == 2
\* runs of the useStream effect (mount, wsUrl changes, remounts)
MaxEffects == 3
\* messages a ReplayEngine hands to the store
MaxReplayed == 8
\* consecutive failed attempts before an open
ResetAttempts == 3
\* events that arrive once the events log is full
ToastExtra == 3
\* events the log has room for when the toasts are first looked at
ToastRoom == 3
\* events that arrive between two runs of the AlertToast effect
MaxUnseen == 3
\* frames received by one client in the backoff specification
BackoffFrames == 1

(***************************************************************************)
(* Program constants.                                                      *)
(***************************************************************************)
DefaultReconnectMinMs == 1000
DefaultReconnectMaxMs == 30000
DefaultStaleTimeoutMs == 15000
\* Math.min(this.reconnectAttempts, 10) in scheduleReconnect
BackoffExponentCap == 10
MAX_TRACK_POINTS == 200
AVG_SOG_WINDOW_MS == 10000
\* state.events.slice(-99)
EVENTS_TAIL == 99
MAX_TOASTS == 5
\* RELAY_THRESHOLD_STALE_S, in milliseconds
STALE_THRESHOLD_MS == 3000
\* null and undefined of a nullable number
Null == -1000000

Min(a, b) == IF a <= b THEN a ELSE b
Max(a, b) == IF a >= b THEN a ELSE b

RECURSIVE Pow2(_)
Pow2(n) == IF n <= 0 THEN 1 ELSE 2 * Pow2(n - 1)

VARIABLES
    \* ---- StreamClient fields ----
    options,            \* Required<StreamClientOptions>; urlOk: new WebSocket(url) does not throw
    ws,                 \* this.ws: 0 is null, otherwise the slot of the socket it refers to
    sock,               \* readyState of every socket that carries this client's handlers
    reconnectAttempts,
    reconnectTimer,     \* "null", "armed" (handle, callback pending), "fired" (handle, callback ran)
    reconnectDelay,     \* the delay of the last setTimeout of scheduleReconnect
    staleTimer,         \* "null", "armed", "fired"
    status,             \* _status
    lastSeq,            \* _lastSeq
    lastMessageTs,      \* _lastMessageTs, the wall clock read as the ordinal of the frame
    messagesReceived,   \* _messagesReceived
    parseErrors,        \* _parseErrors
    seqGaps,            \* _seqGaps
    disposed,           \* _disposed
    \* ---- observations of the StreamClient run (history variables) ----
    lastOp,             \* the handler that ran last
    lastFrame,          \* the frame given to the last ws.onmessage
    prevFrameBad,       \* the frame before lastFrame was rejected
    deliveredCount,     \* calls of options.onMessage
    lastDelivered,      \* seq of the envelope of the last options.onMessage call, -1 if none
    stepOne,            \* every accepted envelope after the first had seq = previous seq + 1
    consecFailures,     \* socket closes and constructor failures since the last onopen
    pendingCloses,      \* closes and constructor failures since the last createSocket call
    attemptFlip,        \* flips at every createSocket call
    \* ---- useStore ----
    store,              \* the zustand state (AppState without its actions)
    now,                \* Date.now()
    \* ---- observations of the store run (history variables) ----
    storeOp,            \* the store action that ran last; for handleMessage the msg.type
    storeThrew,         \* the last store action threw
    msgCount,           \* calls of store.handleMessage in this run
    \* ---- ReplayEngine fields ----
    messages,           \* this.messages
    state,              \* this.state (ReplayState); playbackSpeed is kept in halves, 2 is 1x
    animFrame,          \* "null", "pending" (callback requested), "ran" (handle of a callback that ran)
    orphanFrames,       \* requested callbacks whose handle this.animFrame no longer holds
    elapsedWall,        \* performance.now() - this.wallStartTime, read while playing
    msgStartTs,
    pendingLoads,       \* fetches of load() that have not settled, per session
    \* ---- observations of the ReplayEngine run (history variables) ----
    clean,              \* play() was called in 'ready' and nothing but frames came since
    dispatched,         \* indices given to onMessage since that play(), in order
    \* ---- the relay's side of each connection ----
    lastSent,           \* per socket: seq of the last envelope the relay sent on it, 0 if none
    \* ---- observations of the connections (history variables) ----
    connDelivered,      \* per socket: seq of the last envelope of it given to onMessage, 0 if none
    lastConn,           \* the socket the last accepted envelope came from, 0 if none
    \* ---- SessionsPage state ----
    recording,
    recordingId,        \* 0 (null) or the number of the session the relay named
    error,              \* "null" or the message of the last failure
    loading,
    requests,           \* the fetches of the page that have not settled
    \* ---- the relay's recorder ----
    recorder,           \* "IDLE" or "RECORDING"
    recorded,           \* sessions started so far; the current session's number
    \* ---- observations of the page (history variables) ----
    pageOp,             \* the handler, or the part of it after its await, that ran last
    \* ---- useStream ----
    mounted,            \* the effect has run and its cleanup has not
    wsUrl,              \* the dependency of the effect
    abandoned,          \* sockets created by clients whose cleanup has run
    effects,            \* times the effect has run
    abandonedDelivered, \* an abandoned socket's message reached onMessage
    \* ---- observations of ReplayEngine feeding the store (history variables) ----
    sought,             \* the index the seek() that ran last found, -1 after any other call
    \* ---- AlertToast ----
    toasts,             \* the visible toasts, oldest first
    lastEventCount,
    \* ---- observations of AlertToast (history variables) ----
    toastsCreated,      \* toasts created so far
    toastClock,         \* runs of the effect that created toasts
    unseen,             \* events applied to the store since the effect ran last
    \* ---- RankingBoard ----
    sorted,             \* the memoised list, as athlete ids
    \* ---- observations of the backoff (history variables) ----
    failuresAtOpen      \* consecutive failures before the open that came last, -1 if none

streamVars == <<options, ws, sock, reconnectAttempts, reconnectTimer, reconnectDelay,
                staleTimer, status, lastSeq, lastMessageTs, messagesReceived, parseErrors,
                seqGaps, disposed, lastOp, lastFrame, prevFrameBad, deliveredCount,
                lastDelivered, stepOne, consecFailures, pendingCloses, attemptFlip>>

storeVars == <<store, now, storeOp, storeThrew, msgCount>>

replayVars == <<messages, state, animFrame, orphanFrames, elapsedWall, msgStartTs,
                pendingLoads, clean, dispatched>>

relayVars == <<lastSent, connDelivered, lastConn>>

pageVars == <<recording, recordingId, error, loading, requests, recorder, recorded, pageOp>>

hookVars == <<mounted, wsUrl, abandoned, effects, abandonedDelivered>>

seekVars == <<sought>>

toastVars == <<toasts, lastEventCount, toastsCreated, toastClock, unseen>>

boardVars == <<sorted>>

resetVars == <<failuresAtOpen>>

laterVars == <<seekVars, toastVars, boardVars, resetVars>>

otherVars == <<relayVars, pageVars, hookVars, laterVars>>

vars == <<streamVars, storeVars, replayVars, otherVars>>

(***************************************************************************)
(* StreamClient                                                            *)
(***************************************************************************)
Slots == 1..MaxSockets

ConnectionStatus == {"connecting", "connected", "disconnected"}

\* The constructor merges the caller's options over the defaults.
DefaultOptions == [reconnectMinMs |-> DefaultReconnectMinMs,
                   reconnectMaxMs |-> DefaultReconnectMaxMs,
                   staleTimeoutMs |-> DefaultStaleTimeoutMs,
                   urlOk |-> TRUE]

\* Options a caller can pass: the defaults, an URL the WebSocket constructor
\* rejects, and a small minimum delay.
OptionChoices ==
    { DefaultOptions,
      [DefaultOptions EXCEPT !.urlOk = FALSE],
      [DefaultOptions EXCEPT !.reconnectMinMs = 10],
      [DefaultOptions EXCEPT !.reconnectMinMs = 10, !.urlOk = FALSE] }

\* A WebSocket frame as handleMessage sees it:
\*   notJson   JSON.parse throws (or yields null, whose .type throws)
\*   noType    parsed, msg.type falsy
\*   noSchema  parsed, msg.schema_version falsy
\*   noSeq     parsed, msg.seq === undefined
\*   ok        the envelope passes validation; throws: options.onMessage throws on it
BadKinds == {"notJson", "noType", "noSchema", "noSeq"}
BadFrames == { [kind |-> k, seq |-> 0, throws |-> FALSE] : k \in BadKinds }
OkFrames ==
    { [kind |-> "ok", seq |-> n, throws |-> FALSE] : n \in 0..MaxSeq }
    \cup { [kind |-> "ok", seq |-> n, throws |-> TRUE] : n \in {1, MaxSeq} }
Frames == BadFrames \cup OkFrames
NoFrame == [kind |-> "none", seq |-> 0, throws |-> FALSE]

Live == { s \in Slots : sock[s] # "CLOSED" }
FreeSlot == CHOOSE s \in Slots : sock[s] = "CLOSED" /\ \A t \in Slots : sock[t] = "CLOSED" => s <= t

InitClient(choices) ==
    /\ options \in choices
    /\ ws = 0
    /\ sock = [s \in Slots |-> "CLOSED"]
    /\ reconnectAttempts = 0
    /\ reconnectTimer = "null"
    /\ reconnectDelay = 0
    /\ staleTimer = "null"
    /\ status = "disconnected"
    /\ lastSeq = 0
    /\ lastMessageTs = 0
    /\ messagesReceived = 0
    /\ parseErrors = 0
    /\ seqGaps = 0
    /\ disposed = FALSE
    /\ lastOp = "new"
    /\ lastFrame = NoFrame
    /\ prevFrameBad = FALSE
    /\ deliveredCount = 0
    /\ lastDelivered = -1
    /\ stepOne = TRUE
    /\ consecFailures = 0
    /\ pendingCloses = 0
    /\ attemptFlip = FALSE

msgVars == <<lastSeq, lastMessageTs, messagesReceived, parseErrors, seqGaps,
             lastFrame, prevFrameBad, deliveredCount, lastDelivered, stepOne>>

\* The reconnect delay computed by scheduleReconnect.
BackoffDelayUncapped(attempts) ==
    Min(options.reconnectMinMs * Pow2(attempts), options.reconnectMaxMs)

BackoffDelay(attempts) ==
    Min(options.reconnectMinMs * Pow2(Min(attempts, BackoffExponentCap)),
        options.reconnectMaxMs)

\* scheduleReconnect(): nothing once disposed; otherwise clearTimers(), the
\* delay from the attempts so far, reconnectAttempts++, and the new timer.
ScheduleReconnectIgnoringDisposed ==
    /\ reconnectTimer' = "armed"
    /\ staleTimer' = "null"
    /\ reconnectDelay' = BackoffDelay(reconnectAttempts)
    /\ reconnectAttempts' = reconnectAttempts + 1

ScheduleReconnectOnce ==
    IF disposed \/ reconnectAttempts >= 1
    THEN UNCHANGED <<reconnectTimer, staleTimer, reconnectDelay, reconnectAttempts>>
    ELSE /\ reconnectTimer' = "armed"
         /\ staleTimer' = "null"
         /\ reconnectDelay' = BackoffDelay(reconnectAttempts)
         /\ reconnectAttempts' = reconnectAttempts + 1

scheduleReconnect ==
    IF disposed
    THEN UNCHANGED <<reconnectTimer, staleTimer, reconnectDelay, reconnectAttempts>>
    ELSE /\ reconnectTimer' = "armed"
         /\ staleTimer' = "null"
         /\ reconnectDelay' = BackoffDelay(reconnectAttempts)
         /\ reconnectAttempts' = reconnectAttempts + 1

\* A failure counted by the observer: a close or a constructor failure that
\* the client answers (it is not disposed).
NoteFailure ==
    /\ consecFailures' = IF disposed THEN consecFailures ELSE consecFailures + 1
    /\ pendingCloses' = IF disposed THEN pendingCloses ELSE pendingCloses + 1

\* createSocket(), called with the timers as `timer` leaves them when the
\* constructor succeeds: a new socket in CONNECTING with the four handlers,
\* or, when the constructor throws, 'disconnected' and scheduleReconnect().
createSocket(maxAttempts, firedTimer) ==
    /\ attemptFlip' = ~attemptFlip
    /\ IF options.urlOk
       THEN /\ \E s \in Slots : sock[s] = "CLOSED"
            /\ sock' = [sock EXCEPT ![FreeSlot] = "CONNECTING"]
            /\ ws' = FreeSlot
            /\ status' = "connecting"
            /\ reconnectTimer' = firedTimer
            /\ pendingCloses' = 0
            /\ UNCHANGED <<staleTimer, reconnectDelay, reconnectAttempts, consecFailures>>
       ELSE /\ reconnectAttempts < maxAttempts
            /\ status' = "disconnected"
            /\ scheduleReconnect
            /\ consecFailures' = consecFailures + 1
            /\ pendingCloses' = 1
            /\ UNCHANGED <<sock, ws>>

\* connect(): nothing once disposed; otherwise 'connecting' and createSocket().
\* The guard on Live keeps a slot free for the socket of a pending reconnect.
connect(maxAttempts, maxLive) ==
    /\ lastOp' = "connect"
    /\ IF disposed
       THEN UNCHANGED <<options, ws, sock, reconnectAttempts, reconnectTimer, reconnectDelay,
                        staleTimer, status, disposed, consecFailures, pendingCloses,
                        attemptFlip>>
       ELSE /\ Cardinality(Live) < (IF reconnectTimer = "armed" THEN maxLive - 1 ELSE maxLive)
            /\ createSocket(maxAttempts, reconnectTimer)
            /\ UNCHANGED <<options, disposed>>
    /\ UNCHANGED msgVars

\* clearTimers() as disconnect() uses it, ws.close() on the current socket,
\* ws = null, 'disconnected'.  close() on a socket that is CONNECTING or OPEN
\* starts the closing handshake; its close event comes later.
disconnect ==
    /\ lastOp' = "disconnect"
    /\ disposed' = TRUE
    /\ reconnectTimer' = "null"
    /\ staleTimer' = "null"
    /\ sock' = [s \in Slots |-> IF s = ws /\ sock[s] \in {"CONNECTING", "OPEN"}
                                 THEN "CLOSING" ELSE sock[s]]
    /\ ws' = 0
    /\ status' = "disconnected"
    /\ UNCHANGED <<options, reconnectAttempts, reconnectDelay, consecFailures,
                   pendingCloses, attemptFlip>>
    /\ UNCHANGED msgVars

\* ws.onopen: reconnectAttempts = 0, 'connected', resetStaleTimer().
onopenKeepingAttempts(s) ==
    /\ sock[s] = "CONNECTING"
    /\ lastOp' = "onopen"
    /\ sock' = [sock EXCEPT ![s] = "OPEN"]
    /\ UNCHANGED reconnectAttempts
    /\ consecFailures' = 0
    /\ status' = "connected"
    /\ staleTimer' = "armed"
    /\ UNCHANGED <<options, ws, reconnectTimer, reconnectDelay, disposed, pendingCloses,
                   attemptFlip>>
    /\ UNCHANGED msgVars

onopen(s) ==
    /\ sock[s] = "CONNECTING"
    /\ lastOp' = "onopen"
    /\ sock' = [sock EXCEPT ![s] = "OPEN"]
    /\ reconnectAttempts' = 0
    /\ consecFailures' = 0
    /\ status' = "connected"
    /\ staleTimer' = "armed"
    /\ UNCHANGED <<options, ws, reconnectTimer, reconnectDelay, disposed, pendingCloses,
                   attemptFlip>>
    /\ UNCHANGED msgVars

\* handleMessage(raw): JSON.parse, envelope validation, gap detection,
\* counters, options.onMessage; the catch counts a parse error for whatever
\* threw inside the try, the callback included.
handleMessageGapOnAnyJump(f) ==
    IF f.kind # "ok"
    THEN /\ parseErrors' = parseErrors + 1
         /\ UNCHANGED <<lastSeq, messagesReceived, seqGaps, deliveredCount, lastDelivered>>
    ELSE /\ seqGaps' = IF f.seq # lastSeq + 1 THEN seqGaps + 1 ELSE seqGaps
         /\ lastSeq' = f.seq
         /\ messagesReceived' = messagesReceived + 1
         /\ deliveredCount' = deliveredCount + 1
         /\ lastDelivered' = f.seq
         /\ parseErrors' = IF f.throws THEN parseErrors + 1 ELSE parseErrors

handleMessageNoValidation(f) ==
    IF f.kind = "notJson"
    THEN /\ parseErrors' = parseErrors + 1
         /\ UNCHANGED <<lastSeq, messagesReceived, seqGaps, deliveredCount, lastDelivered>>
    ELSE /\ seqGaps' = IF lastSeq > 0 /\ f.seq > lastSeq + 1 THEN seqGaps + 1 ELSE seqGaps
         /\ lastSeq' = f.seq
         /\ messagesReceived' = messagesReceived + 1
         /\ deliveredCount' = deliveredCount + 1
         /\ lastDelivered' = f.seq
         /\ parseErrors' = IF f.throws THEN parseErrors + 1 ELSE parseErrors

handleMessageTwice(f) ==
    IF f.kind # "ok"
    THEN /\ parseErrors' = parseErrors + 1
         /\ UNCHANGED <<lastSeq, messagesReceived, seqGaps, deliveredCount, lastDelivered>>
    ELSE /\ seqGaps' = IF lastSeq > 0 /\ f.seq > lastSeq + 1 THEN seqGaps + 1 ELSE seqGaps
         /\ lastSeq' = f.seq
         /\ messagesReceived' = messagesReceived + 1
         /\ deliveredCount' = deliveredCount + 2
         /\ lastDelivered' = f.seq
         /\ parseErrors' = IF f.throws THEN parseErrors + 1 ELSE parseErrors

handleMessage(f) ==
    IF f.kind # "ok"
    THEN /\ parseErrors' = parseErrors + 1
         /\ UNCHANGED <<lastSeq, messagesReceived, seqGaps, deliveredCount, lastDelivered>>
    ELSE /\ seqGaps' = IF lastSeq > 0 /\ f.seq > lastSeq + 1 THEN seqGaps + 1 ELSE seqGaps
         /\ lastSeq' = f.seq
         /\ messagesReceived' = messagesReceived + 1
         /\ deliveredCount' = deliveredCount + 1
         /\ lastDelivered' = f.seq
         /\ parseErrors' = IF f.throws THEN parseErrors + 1 ELSE parseErrors

\* ws.onmessage: resetStaleTimer(), _lastMessageTs = Date.now(), handleMessage.
\* The browser fires message events only on a socket that is OPEN.
onmessage(s, f, maxFrames) ==
    /\ sock[s] = "OPEN"
    /\ messagesReceived + parseErrors < maxFrames
    /\ lastOp' = "onmessage"
    /\ staleTimer' = "armed"
    /\ lastMessageTs' = lastMessageTs + 1
    /\ lastFrame' = f
    /\ prevFrameBad' = (lastFrame.kind \in BadKinds)
    /\ stepOne' = IF f.kind = "ok" /\ messagesReceived > 0
                  THEN stepOne /\ f.seq = lastSeq + 1
                  ELSE stepOne
    /\ handleMessage(f)
    /\ UNCHANGED <<options, ws, sock, reconnectAttempts, reconnectTimer, reconnectDelay,
                   status, disposed, consecFailures, pendingCloses, attemptFlip>>

\* ws.onclose: 'disconnected' and scheduleReconnect().  The close event of a
\* socket comes once, whoever closed it (the server, the network, close()).
onclose(s, maxAttempts) ==
    /\ sock[s] # "CLOSED"
    /\ disposed \/ reconnectAttempts < maxAttempts
    /\ lastOp' = "onclose"
    /\ sock' = [sock EXCEPT ![s] = "CLOSED"]
    /\ status' = "disconnected"
    /\ scheduleReconnect
    /\ NoteFailure
    /\ UNCHANGED <<options, ws, disposed, attemptFlip>>
    /\ UNCHANGED msgVars

\* The callback of the reconnect timer: 'connecting' and createSocket().
reconnectTimerFires(maxAttempts) ==
    /\ reconnectTimer = "armed"
    /\ lastOp' = "reconnectTimer"
    /\ createSocket(maxAttempts, "fired")
    /\ UNCHANGED <<options, disposed>>
    /\ UNCHANGED msgVars

\* The callback of the stale timer (resetStaleTimer): console.warn, nothing else.
staleTimerFires ==
    /\ staleTimer = "armed"
    /\ lastOp' = "staleTimer"
    /\ staleTimer' = "fired"
    /\ UNCHANGED <<options, ws, sock, reconnectAttempts, reconnectTimer, reconnectDelay,
                   status, disposed, consecFailures, pendingCloses, attemptFlip>>
    /\ UNCHANGED msgVars

(***************************************************************************)
(* useStore                                                                *)
(***************************************************************************)
AthleteStatus == {"SAFE", "APPROACHING", "RISK", "CROSSED", "OCS", "STALE"}
MessageType == {"position_update", "gate_metrics", "start_line_definition",
                "device_health", "event", "heartbeat"}

\* Athletes the relay knows; UnknownAthlete never has a position.
AthleteIds == {"A1", "A2"}
UnknownAthlete == "A9"
DeviceOf(a) == IF a = "A1" THEN 1 ELSE IF a = "A2" THEN 2 ELSE 9

\* PositionEntry.  Speeds are in tenths of a knot, times in milliseconds.
PositionEntry(a, lat, sog, deviceTs, age) ==
    [athlete_id |-> a, device_id |-> DeviceOf(a), name |-> a, team |-> "HKSI",
     lat |-> lat, lon |-> 114, alt_m |-> 0, sog_kn |-> sog, cog_deg |-> 90,
     source_mask |-> 1, device_ts_ms |-> deviceTs, data_age_ms |-> age]

\* GateMetricEntry, with the fields the store reads.
GateMetricEntry(a, st, dist, eta) ==
    [athlete_id |-> a, dist_to_line_m |-> dist, eta_to_line_s |-> eta,
     speed_to_line_mps |-> 2, status |-> st, position_quality |-> 1]

\* The initial state of create<AppState>.
InitialStore ==
    [connectionStatus |-> "disconnected",
     lastMessageTs |-> 0,
     sessionId |-> "null",
     athletes |-> << >>,
     startLine |-> "null",
     events |-> << >>,
     deviceHealth |-> << >>,
     heartbeat |-> "null",
     sortColumn |-> "dist_to_line_m",
     sortAscending |-> TRUE,
     filterText |-> "",
     mapControls |-> [showTracks |-> TRUE, showLabels |-> TRUE,
                      followSelected |-> FALSE, trackTailSeconds |-> 0],
     wind |-> "null",
     measurement |-> [active |-> FALSE, startLatLon |-> "null", endLatLon |-> "null",
                      distance_m |-> Null, bearing_deg |-> Null]]

\* array.slice(-n) for n > 0: the last n elements, all of them when fewer.
SliceLast(arr, n) ==
    IF Len(arr) <= n THEN arr ELSE SubSeq(arr, Len(arr) - n + 1, Len(arr))

RECURSIVE SumSog(_)
SumSog(points) ==
    IF points = << >> THEN 0
    ELSE (IF Head(points).sog_kn = Null THEN 0 ELSE Head(points).sog_kn) + SumSog(Tail(points))

\* computeAvgSog: the mean of the non-null speeds of the points in the last
\* AVG_SOG_WINDOW_MS, rounded to a tenth (Math.round rounds half up).
computeAvgSog(track, t) ==
    LET cutoff == t - AVG_SOG_WINDOW_MS
        recent == SelectSeq(track, LAMBDA p : p.ts_ms >= cutoff /\ p.sog_kn # Null)
    IN  IF Len(recent) = 0 THEN Null
        ELSE (2 * SumSog(recent) + Len(recent)) \div (2 * Len(recent))

\* athletes with athletes[id] = entry
Put(athletes, id, entry) ==
    [a \in (DOMAIN athletes) \cup {id} |-> IF a = id THEN entry ELSE athletes[a]]

\* The ring-buffer append of the position_update case.
NewTrackUnbounded(track, pos) ==
    Append(track, [lat |-> pos.lat, lon |-> pos.lon, ts_ms |-> pos.device_ts_ms,
                   sog_kn |-> pos.sog_kn])

NewTrack(track, pos) ==
    Append(SliceLast(track, MAX_TRACK_POINTS - 1),
           [lat |-> pos.lat, lon |-> pos.lon, ts_ms |-> pos.device_ts_ms,
            sog_kn |-> pos.sog_kn])

\* One iteration of `for (const pos of positions)`.
ApplyPosition(athletes, pos, t) ==
    LET known == pos.athlete_id \in DOMAIN athletes
        existing == athletes[pos.athlete_id]
        newTrack == NewTrack(IF known THEN existing.track ELSE << >>, pos)
    IN  Put(athletes, pos.athlete_id,
            [athlete_id |-> pos.athlete_id,
             device_id |-> pos.device_id,
             name |-> pos.name,
             team |-> pos.team,
             lat |-> pos.lat,
             lon |-> pos.lon,
             alt_m |-> pos.alt_m,
             sog_kn |-> pos.sog_kn,
             cog_deg |-> pos.cog_deg,
             source_mask |-> pos.source_mask,
             device_ts_ms |-> pos.device_ts_ms,
             data_age_ms |-> pos.data_age_ms,
             dist_to_line_m |-> IF known THEN existing.dist_to_line_m ELSE Null,
             eta_to_line_s |-> IF known THEN existing.eta_to_line_s ELSE Null,
             speed_to_line_mps |-> IF known THEN existing.speed_to_line_mps ELSE Null,
             status |-> IF known THEN existing.status ELSE "SAFE",
             position_quality |-> IF known THEN existing.position_quality ELSE Null,
             avg_sog_kn |-> computeAvgSog(newTrack, t),
             track |-> newTrack,
             pinned |-> IF known THEN existing.pinned ELSE FALSE,
             selected |-> IF known THEN existing.selected ELSE FALSE,
             last_update_ms |-> t])

RECURSIVE ApplyPositions(_, _, _)
ApplyPositions(athletes, positions, t) ==
    IF positions = << >> THEN athletes
    ELSE ApplyPositions(ApplyPosition(athletes, Head(positions), t), Tail(positions), t)

\* One iteration of `for (const m of metrics)`.
ApplyMetricLatched(athletes, m) ==
    IF m.athlete_id \in DOMAIN athletes
    THEN [athletes EXCEPT ![m.athlete_id] =
            [@ EXCEPT !.dist_to_line_m = m.dist_to_line_m,
                      !.eta_to_line_s = m.eta_to_line_s,
                      !.speed_to_line_mps = m.speed_to_line_mps,
                      !.status = IF @ \in {"CROSSED", "OCS"} THEN @ ELSE m.status,
                      !.position_quality = m.position_quality]]
    ELSE athletes

ApplyMetricCreating(athletes, m) ==
    IF m.athlete_id \in DOMAIN athletes
    THEN [athletes EXCEPT ![m.athlete_id] =
            [@ EXCEPT !.dist_to_line_m = m.dist_to_line_m,
                      !.eta_to_line_s = m.eta_to_line_s,
                      !.speed_to_line_mps = m.speed_to_line_mps,
                      !.status = m.status,
                      !.position_quality = m.position_quality]]
    ELSE Put(athletes, m.athlete_id,
             [athlete_id |-> m.athlete_id, device_id |-> DeviceOf(m.athlete_id),
              name |-> m.athlete_id, team |-> "HKSI", lat |-> 0, lon |-> 0, alt_m |-> 0,
              sog_kn |-> Null, cog_deg |-> Null, source_mask |-> 0, device_ts_ms |-> 0,
              data_age_ms |-> 0,
              dist_to_line_m |-> m.dist_to_line_m,
              eta_to_line_s |-> m.eta_to_line_s,
              speed_to_line_mps |-> m.speed_to_line_mps,
              status |-> m.status,
              position_quality |-> m.position_quality,
              avg_sog_kn |-> Null, track |-> << >>, pinned |-> FALSE, selected |-> FALSE,
              last_update_ms |-> 0])

ApplyMetric(athletes, m) ==
    IF m.athlete_id \in DOMAIN athletes
    THEN [athletes EXCEPT ![m.athlete_id] =
            [@ EXCEPT !.dist_to_line_m = m.dist_to_line_m,
                      !.eta_to_line_s = m.eta_to_line_s,
                      !.speed_to_line_mps = m.speed_to_line_mps,
                      !.status = m.status,
                      !.position_quality = m.position_quality]]
    ELSE athletes

RECURSIVE ApplyMetrics(_, _)
ApplyMetrics(athletes, metrics) ==
    IF metrics = << >> THEN athletes
    ELSE ApplyMetrics(ApplyMetric(athletes, Head(metrics)), Tail(metrics))

\* The events log after the event case.
NewEventsUnbounded(events, entry) == Append(events, entry)

NewEvents(events, entry) == Append(SliceLast(events, EVENTS_TAIL), entry)

\* The default case of the switch: console.warn.
UnknownTypeTouchesClock(st, msg, t) == [st EXCEPT !.lastMessageTs = t]

UnknownType(st, msg, t) == st

\* handleMessage throws when the payload lacks what the case reads:
\* positions or metrics to iterate, device_id of a null payload.
Throws(msg) ==
    msg.type \in {"position_update", "gate_metrics", "device_health"} /\ ~msg.payloadOk

\* store.handleMessage(msg) at wall-clock time t: the state it sets.
handleMessageStore(st, msg, t) ==
    IF Throws(msg) THEN st
    ELSE CASE msg.type = "position_update" ->
                [st EXCEPT !.athletes = ApplyPositions(st.athletes, msg.payload.positions, t),
                           !.lastMessageTs = t,
                           !.sessionId = msg.session_id]
           [] msg.type = "gate_metrics" ->
                [st EXCEPT !.athletes = ApplyMetrics(st.athletes, msg.payload.metrics),
                           !.lastMessageTs = t]
           [] msg.type = "start_line_definition" ->
                [st EXCEPT !.startLine = msg.payload, !.lastMessageTs = t]
           [] msg.type = "device_health" ->
                [st EXCEPT !.deviceHealth = Put(st.deviceHealth, msg.payload.device_id,
                                                msg.payload),
                           !.lastMessageTs = t]
           [] msg.type = "event" ->
                [st EXCEPT !.events = NewEvents(st.events,
                                                [event_kind |-> msg.payload.event_kind,
                                                 athlete_id |-> msg.payload.athlete_id,
                                                 ts_ms |-> msg.ts_ms]),
                           !.lastMessageTs = t]
           [] msg.type = "heartbeat" ->
                [st EXCEPT !.heartbeat = msg.payload,
                           !.lastMessageTs = t,
                           !.sessionId = msg.session_id]
           [] OTHER -> UnknownType(st, msg, t)

\* togglePin(athleteId)
togglePinStore(st, id) ==
    IF id \in DOMAIN st.athletes
    THEN [st EXCEPT !.athletes[id].pinned = ~@]
    ELSE st

\* selectAthlete(athleteId), athleteId possibly null
selectAthleteStore(st, id) ==
    [st EXCEPT !.athletes = [a \in DOMAIN st.athletes |->
                                [st.athletes[a] EXCEPT !.selected = (a = id)]]]

(***************************************************************************)
(* The envelopes the store is given.                                       *)
(***************************************************************************)
Envelope(type, ts, session, ok, payload) ==
    [type |-> type, ts_ms |-> ts, session_id |-> session, payloadOk |-> ok,
     payload |-> payload]

\* Positions the relay sends at time t: a fresh one with a speed, and one
\* that is 12 s old and has none.
FreshPosition(a, t) == PositionEntry(a, 22, 50, t, 0)
OldPosition(a, t) == PositionEntry(a, 22, Null, t - 12000, 12000)

\* Batches of one entry, and one batch of two.
PositionBatchesAt(t) ==
    { <<FreshPosition(a, t)>> : a \in AthleteIds }
    \cup { <<OldPosition(a, t)>> : a \in AthleteIds }
    \cup { <<FreshPosition("A1", t), FreshPosition("A2", t)>> }

MetricBatches ==
    { <<GateMetricEntry("A1", st, -5, 3)>> : st \in AthleteStatus }
    \cup { <<GateMetricEntry(UnknownAthlete, "CROSSED", 2, Null)>>,
           <<GateMetricEntry("A1", "RISK", -5, 3), GateMetricEntry("A2", "OCS", 2, Null)>> }

EnvelopesAt(t) ==
    LET session == "S1"
    IN  { Envelope("position_update", t, session, TRUE, [positions |-> b]) :
            b \in PositionBatchesAt(t) }
        \cup { Envelope("gate_metrics", t, session, TRUE, [metrics |-> b]) :
                 b \in MetricBatches }
        \cup { Envelope(ty, t, session, FALSE, "null") :
                 ty \in {"position_update", "gate_metrics", "device_health"} }
        \cup { Envelope("start_line_definition", t, session, TRUE,
                        [gate_length_m |-> 523, quality |-> "GOOD"]),
               Envelope("device_health", t, session, TRUE,
                        [device_id |-> "101", online |-> TRUE]),
               Envelope("event", t, session, TRUE,
                        [event_kind |-> "CROSSING", athlete_id |-> "A1"]),
               Envelope("heartbeat", t, "null", TRUE, [uptime_s |-> 5]),
               Envelope("athlete_registry", t, session, TRUE, "null") }

InitStoreVars ==
    /\ store = InitialStore
    /\ now = 0
    /\ storeOp = "create"
    /\ storeThrew = FALSE
    /\ msgCount = 0

\* The wall clock moves on by five seconds.
Tick ==
    /\ now < 5000 * MaxTicks
    /\ now' = now + 5000
    /\ UNCHANGED <<store, storeOp, storeThrew, msgCount>>

StoreHandleMessage(msg, maxMsgs) ==
    /\ msgCount < maxMsgs
    /\ msgCount' = msgCount + 1
    /\ storeOp' = msg.type
    /\ storeThrew' = Throws(msg)
    /\ store' = handleMessageStore(store, msg, now)
    /\ UNCHANGED now

StoreTogglePin(id) ==
    /\ storeOp' = "togglePin"
    /\ storeThrew' = FALSE
    /\ store' = togglePinStore(store, id)
    /\ UNCHANGED <<now, msgCount>>

StoreSelectAthlete(id) ==
    /\ storeOp' = "selectAthlete"
    /\ storeThrew' = FALSE
    /\ store' = selectAthleteStore(store, id)
    /\ UNCHANGED <<now, msgCount>>

StoreSetConnectionStatus(st) ==
    /\ storeOp' = "setConnectionStatus"
    /\ storeThrew' = FALSE
    /\ store' = [store EXCEPT !.connectionStatus = st]
    /\ UNCHANGED <<now, msgCount>>

(***************************************************************************)
(* ReplayEngine                                                            *)
(***************************************************************************)
\* What GET /api/sessions/{id}/messages answers: a pack in time order, a
\* pack whose timestamps go backwards, and for S3 an empty pack or a failure.
Sessions == {"S1", "S2", "S3"}
PackMsg(ts, type) == [ts_ms |-> ts, type |-> type]
PackOf(id) ==
    CASE id = "S1" -> << PackMsg(0, "start_line_definition"), PackMsg(2, "position_update"),
                         PackMsg(2, "event"), PackMsg(4, "position_update") >>
      [] id = "S2" -> << PackMsg(4, "position_update"), PackMsg(2, "event") >>
      [] OTHER -> << >>
FetchOutcomes(id) == IF id = "S3" THEN {"ok", "fails"} ELSE {"ok"}

\* Playback speeds of the page, in halves: 0.5x and 2x (1x is the initial speed).
Speeds == {1, 4}
\* Time between two animation frames.
FrameSteps == {2, 4}
\* Timestamps the page asks seek() for.
SeekTargets == {-1, 3, 5}

initialState ==
    [status |-> "idle", sessionId |-> "null", totalMessages |-> 0, currentIndex |-> 0,
     startTs |-> 0, endTs |-> 0, currentTs |-> 0, playbackSpeed |-> 2,
     events |-> << >>, error |-> "null"]

InitReplayVars ==
    /\ messages = << >>
    /\ state = initialState
    /\ animFrame = "null"
    /\ orphanFrames = 0
    /\ elapsedWall = 0
    /\ msgStartTs = 0
    /\ pendingLoads = [id \in Sessions |-> 0]
    /\ clean = FALSE
    /\ dispatched = << >>

\* The event markers load() extracts.
RECURSIVE EventMarkers(_, _)
EventMarkers(msgs, i) ==
    IF i > Len(msgs) THEN << >>
    ELSE (IF msgs[i].type = "event" THEN << [ts_ms |-> msgs[i].ts_ms, index |-> i - 1] >>
          ELSE << >>) \o EventMarkers(msgs, i + 1)

\* The while loop of tick: the index after dispatching, from index i, every
\* message whose ts_ms is at most limitTs, stopping at the first later one.
RECURSIVE NextIndex(_, _, _)
NextIndex(msgs, i, limitTs) ==
    IF i < Len(msgs) /\ msgs[i + 1].ts_ms <= limitTs
    THEN NextIndex(msgs, i + 1, limitTs)
    ELSE i

\* tick() without its requestAnimationFrame call.
tickWithoutNextFrame(st, msgs, elapsedW, mStart) ==
    IF st.status # "playing" THEN [state |-> st, again |-> FALSE]
    ELSE LET currentTs == mStart + (elapsedW * st.playbackSpeed) \div 2
             idx == NextIndex(msgs, st.currentIndex, currentTs)
         IN  IF idx >= Len(msgs)
             THEN [state |-> [st EXCEPT !.currentIndex = idx, !.status = "ended",
                                        !.currentTs = st.endTs],
                   again |-> FALSE]
             ELSE [state |-> [st EXCEPT !.currentIndex = idx,
                                        !.currentTs = Min(currentTs, st.endTs)],
                   again |-> FALSE]

\* tick(): what it makes of this.state and whether it requests another frame.
tick(st, msgs, elapsedW, mStart) ==
    IF st.status # "playing" THEN [state |-> st, again |-> FALSE]
    ELSE LET currentTs == mStart + (elapsedW * st.playbackSpeed) \div 2
             idx == NextIndex(msgs, st.currentIndex, currentTs)
         IN  IF idx >= Len(msgs)
             THEN [state |-> [st EXCEPT !.currentIndex = idx, !.status = "ended",
                                        !.currentTs = st.endTs],
                   again |-> FALSE]
             ELSE [state |-> [st EXCEPT !.currentIndex = idx,
                                        !.currentTs = Min(currentTs, st.endTs)],
                   again |-> TRUE]

\* The argument of onMessage for index i: the pack's message as loaded.
Handed(i) == messages[i + 1]

\* The wall clock when the recorded session started, which the pack's
\* session-relative ts_ms are offsets from.
SessionStartWallMs == 1700000000

\* The indices from..to-1, in order.
Range(from, to) == [k \in 1..(to - from) |-> from + k - 1]

\* stop(): cancel the frame this.animFrame holds, drop the messages, reset the state.
stop ==
    /\ animFrame' = "null"
    /\ messages' = << >>
    /\ state' = initialState
    /\ clean' = FALSE
    /\ dispatched' = << >>
    /\ UNCHANGED <<orphanFrames, elapsedWall, msgStartTs, pendingLoads>>

\* load(sessionId) up to its await: stop(), then 'loading'.
load(id) ==
    /\ pendingLoads[id] = 0
    /\ Cardinality({ x \in Sessions : pendingLoads[x] > 0 }) < MaxPendingLoads
    /\ animFrame' = "null"
    /\ messages' = << >>
    /\ state' = [initialState EXCEPT !.status = "loading", !.sessionId = id]
    /\ pendingLoads' = [pendingLoads EXCEPT ![id] = 1]
    /\ clean' = FALSE
    /\ dispatched' = << >>
    /\ UNCHANGED <<orphanFrames, elapsedWall, msgStartTs>>

\* load(sessionId) after its await: the fetch of session id settles.
loadSettles(id, outcome) ==
    /\ pendingLoads[id] > 0
    /\ outcome \in FetchOutcomes(id)
    /\ pendingLoads' = [pendingLoads EXCEPT ![id] = 0]
    /\ clean' = FALSE
    /\ dispatched' = << >>
    /\ IF outcome = "fails"
       THEN /\ state' = [state EXCEPT !.status = "error", !.error = "Failed to load session"]
            /\ UNCHANGED messages
       ELSE /\ messages' = PackOf(id)
            /\ state' = IF PackOf(id) = << >>
                        THEN [state EXCEPT !.status = "error",
                                           !.error = "No messages in session"]
                        ELSE [state EXCEPT !.status = "ready",
                                           !.totalMessages = Len(PackOf(id)),
                                           !.currentIndex = 0,
                                           !.startTs = PackOf(id)[1].ts_ms,
                                           !.endTs = PackOf(id)[Len(PackOf(id))].ts_ms,
                                           !.currentTs = PackOf(id)[1].ts_ms,
                                           !.events = EventMarkers(PackOf(id), 1),
                                           !.error = "null"]
    /\ UNCHANGED <<animFrame, orphanFrames, elapsedWall, msgStartTs>>

\* play(): from 'ended' back to the start; from 'ready', 'paused' or 'ended'
\* to 'playing' with the wall clock restarted, and a first tick().
play ==
    /\ IF state.status \notin {"ready", "paused", "ended"}
       THEN UNCHANGED <<messages, state, animFrame, orphanFrames, elapsedWall, msgStartTs,
                        pendingLoads, clean, dispatched>>
       ELSE LET st0 == IF state.status = "ended"
                       THEN [state EXCEPT !.currentIndex = 0, !.currentTs = state.startTs]
                       ELSE state
                t == tick([st0 EXCEPT !.status = "playing"], messages, 0, st0.currentTs)
            IN  /\ ~(t.again /\ animFrame = "pending") \/ orphanFrames < MaxOrphans
                /\ state' = t.state
                /\ elapsedWall' = 0
                /\ msgStartTs' = st0.currentTs
                /\ animFrame' = IF t.again THEN "pending" ELSE animFrame
                /\ orphanFrames' = IF t.again /\ animFrame = "pending"
                                   THEN orphanFrames + 1 ELSE orphanFrames
                /\ clean' = (state.status = "ready")
                /\ dispatched' = IF state.status = "ready"
                                 THEN Range(st0.currentIndex, t.state.currentIndex)
                                 ELSE << >>
                /\ UNCHANGED <<messages, pendingLoads>>

\* pause(): only while playing; cancels the frame this.animFrame holds.
pause ==
    /\ IF state.status # "playing"
       THEN UNCHANGED <<state, animFrame, clean, dispatched>>
       ELSE /\ state' = [state EXCEPT !.status = "paused"]
            /\ animFrame' = "null"
            /\ clean' = FALSE
            /\ dispatched' = << >>
    /\ UNCHANGED <<messages, orphanFrames, elapsedWall, msgStartTs, pendingLoads>>

\* setSpeed(speed): pause() if playing, the new speed, play() if it was playing.
setSpeed(speed) ==
    /\ clean' = FALSE
    /\ dispatched' = << >>
    /\ IF state.status # "playing"
       THEN /\ state' = [state EXCEPT !.playbackSpeed = speed]
            /\ UNCHANGED <<animFrame, elapsedWall, msgStartTs>>
       ELSE LET t == tick([state EXCEPT !.playbackSpeed = speed], messages, 0, state.currentTs)
            IN  /\ state' = t.state
                /\ elapsedWall' = 0
                /\ msgStartTs' = state.currentTs
                /\ animFrame' = IF t.again THEN "pending" ELSE "null"
    /\ UNCHANGED <<messages, orphanFrames, pendingLoads>>

\* The index seek() finds: the last of the leading messages at or before targetTs.
SeekIndex(msgs, targetTs) == Max(NextIndex(msgs, 0, targetTs) - 1, 0)

seekUnclamped(ts) ==
    LET targetTs == ts
        idx == SeekIndex(messages, targetTs)
        wasPlaying == state.status = "playing"
        moved == [state EXCEPT !.currentIndex = idx, !.currentTs = targetTs]
    IN  /\ clean' = FALSE
        /\ dispatched' = << >>
        /\ IF messages = << >>
           THEN /\ state' = moved
                /\ animFrame' = IF wasPlaying THEN "null" ELSE animFrame
                /\ UNCHANGED <<elapsedWall, msgStartTs>>
           ELSE IF wasPlaying
                THEN LET t == tick(moved, messages, 0, targetTs)
                     IN  /\ state' = t.state
                         /\ elapsedWall' = 0
                         /\ msgStartTs' = targetTs
                         /\ animFrame' = IF t.again THEN "pending" ELSE "null"
                ELSE /\ state' = [moved EXCEPT !.status = IF idx >= Len(messages) - 1
                                                          THEN "ended" ELSE "paused"]
                     /\ UNCHANGED <<animFrame, elapsedWall, msgStartTs>>
        /\ UNCHANGED <<messages, orphanFrames, pendingLoads>>

\* seek(ts_ms): clamp, find the index, cancel the frame if playing, replay
\* messages[0..idx] through onMessage, then go on playing or settle in
\* 'paused' or 'ended'.  On an empty this.messages onMessage(undefined)
\* throws out of seek after currentIndex and currentTs were set.
seek(ts) ==
    LET targetTs == Max(state.startTs, Min(ts, state.endTs))
        idx == SeekIndex(messages, targetTs)
        wasPlaying == state.status = "playing"
        moved == [state EXCEPT !.currentIndex = idx, !.currentTs = targetTs]
    IN  /\ clean' = FALSE
        /\ dispatched' = << >>
        /\ IF messages = << >>
           THEN /\ state' = moved
                /\ animFrame' = IF wasPlaying THEN "null" ELSE animFrame
                /\ UNCHANGED <<elapsedWall, msgStartTs>>
           ELSE IF wasPlaying
                THEN LET t == tick(moved, messages, 0, targetTs)
                     IN  /\ state' = t.state
                         /\ elapsedWall' = 0
                         /\ msgStartTs' = targetTs
                         /\ animFrame' = IF t.again THEN "pending" ELSE "null"
                ELSE /\ state' = [moved EXCEPT !.status = IF idx >= Len(messages) - 1
                                                          THEN "ended" ELSE "paused"]
                     /\ UNCHANGED <<animFrame, elapsedWall, msgStartTs>>
        /\ UNCHANGED <<messages, orphanFrames, pendingLoads>>

\* get progress(), in thousandths: 0 on an empty range.
progress(st) ==
    LET range == st.endTs - st.startTs
    IN  IF range <= 0 THEN 0 ELSE ((st.currentTs - st.startTs) * 1000) \div range

\* The callback of the frame this.animFrame holds: tick() after dt more of wall time.
animationFrame(dt) ==
    /\ animFrame = "pending"
    /\ LET t == tick(state, messages, elapsedWall + dt, msgStartTs)
       IN  /\ state' = t.state
           /\ elapsedWall' = IF state.status = "playing" THEN elapsedWall + dt ELSE elapsedWall
           /\ animFrame' = IF t.again THEN "pending" ELSE "ran"
           /\ dispatched' = IF clean
                            THEN dispatched \o Range(state.currentIndex, t.state.currentIndex)
                            ELSE dispatched
    /\ UNCHANGED <<messages, orphanFrames, msgStartTs, pendingLoads, clean>>

\* The callback of a frame whose handle was overwritten: tick() all the same.
\* The frame it requests takes this.animFrame; the one held before is orphaned.
orphanFrame(dt) ==
    /\ orphanFrames > 0
    /\ LET t == tick(state, messages, elapsedWall + dt, msgStartTs)
       IN  /\ state' = t.state
           /\ elapsedWall' = IF state.status = "playing" THEN elapsedWall + dt ELSE elapsedWall
           /\ animFrame' = IF t.again THEN "pending" ELSE animFrame
           /\ orphanFrames' = IF t.again /\ animFrame = "pending"
                              THEN orphanFrames ELSE orphanFrames - 1
           /\ dispatched' = IF clean
                            THEN dispatched \o Range(state.currentIndex, t.state.currentIndex)
                            ELSE dispatched
    /\ UNCHANGED <<messages, msgStartTs, pendingLoads, clean>>

(***************************************************************************)
(* The relay's per-client sender, as the specification describes it: the   *)
(* fabricator numbers the envelopes with increasing seq and each client's  *)
(* queue is FIFO, so on one connection every envelope has a higher seq     *)
(* than the one before it.  A new connection starts anew (the relay may    *)
(* have restarted).                                                        *)
(***************************************************************************)
InitRelayVars ==
    /\ lastSent = [s \in Slots |-> 0]
    /\ connDelivered = [s \in Slots |-> 0]
    /\ lastConn = 0

(***************************************************************************)
(* SessionsPage and the relay's recorder.  The recorder is modelled from   *)
(* the specification: start answers 409 while recording, stop answers 409  *)
(* while idle.                                                             *)
(***************************************************************************)
RequestSlots == 1..MaxRequests
NoRequest == [kind |-> "none", phase |-> "none", ok |-> FALSE, session_id |-> 0]
Sent(kind) == [kind |-> kind, phase |-> "sent", ok |-> FALSE, session_id |-> 0]
Answered(kind, ok, id) == [kind |-> kind, phase |-> "answered", ok |-> ok, session_id |-> id]
FreeRequest == CHOOSE i \in RequestSlots :
                   requests[i] = NoRequest /\ \A j \in RequestSlots : requests[j] = NoRequest => i <= j

\* The page after mounting: the effect has called loadSessions().  The relay
\* may be recording already.
InitPageVars ==
    /\ recording = FALSE
    /\ recordingId = 0
    /\ error = "null"
    /\ loading = TRUE
    /\ requests = [i \in RequestSlots |-> IF i = 1 THEN Sent("load") ELSE NoRequest]
    /\ recorder \in {"IDLE", "RECORDING"}
    /\ recorded = IF recorder = "RECORDING" THEN 1 ELSE 0
    /\ pageOp = "mount"

\* The page unused: what the other specifications start from.
InitPageIdle ==
    /\ recording = FALSE
    /\ recordingId = 0
    /\ error = "null"
    /\ loading = TRUE
    /\ requests = [i \in RequestSlots |-> NoRequest]
    /\ recorder = "IDLE"
    /\ recorded = 0
    /\ pageOp = "none"

\* loadSessions() up to its await: setError(null), GET /api/sessions.
loadSessions ==
    /\ \E i \in RequestSlots : requests[i] = NoRequest
    /\ pageOp' = "loadSessions"
    /\ error' = "null"
    /\ requests' = [requests EXCEPT ![FreeRequest] = Sent("load")]
    /\ UNCHANGED <<recording, recordingId, loading, recorder, recorded>>

\* handleStartRecording up to its await: POST /api/sessions/start.
handleStartRecording ==
    /\ ~recording
    /\ \E i \in RequestSlots : requests[i] = NoRequest
    /\ pageOp' = "handleStartRecording"
    /\ requests' = [requests EXCEPT ![FreeRequest] = Sent("start")]
    /\ UNCHANGED <<recording, recordingId, error, loading, recorder, recorded>>

\* handleStopRecording up to its await: POST /api/sessions/stop.
handleStopRecording ==
    /\ recording
    /\ \E i \in RequestSlots : requests[i] = NoRequest
    /\ pageOp' = "handleStopRecording"
    /\ requests' = [requests EXCEPT ![FreeRequest] = Sent("stop")]
    /\ UNCHANGED <<recording, recordingId, error, loading, recorder, recorded>>

\* The relay answers request i.
relayAnswers(i) ==
    /\ requests[i].phase = "sent"
    /\ pageOp' = "relayAnswers"
    /\ CASE requests[i].kind = "start" ->
              IF recorder = "IDLE"
              THEN /\ recorded < MaxRecordings
                   /\ recorder' = "RECORDING"
                   /\ recorded' = recorded + 1
                   /\ requests' = [requests EXCEPT ![i] = Answered("start", TRUE, recorded + 1)]
              ELSE /\ requests' = [requests EXCEPT ![i] = Answered("start", FALSE, 0)]
                   /\ UNCHANGED <<recorder, recorded>>
         [] requests[i].kind = "stop" ->
              IF recorder = "RECORDING"
              THEN /\ recorder' = "IDLE"
                   /\ requests' = [requests EXCEPT ![i] = Answered("stop", TRUE, 0)]
                   /\ UNCHANGED recorded
              ELSE /\ requests' = [requests EXCEPT ![i] = Answered("stop", FALSE, 0)]
                   /\ UNCHANGED <<recorder, recorded>>
         [] OTHER ->
              /\ requests' = [requests EXCEPT ![i] = Answered("load", TRUE, 0)]
              /\ UNCHANGED <<recorder, recorded>>
    /\ UNCHANGED <<recording, recordingId, error, loading>>

\* fetch of request i rejects (the relay is unreachable).
fetchRejects(i) ==
    /\ requests[i].phase = "sent"
    /\ pageOp' = "fetchRejects"
    /\ requests' = [requests EXCEPT ![i] = Answered(requests[i].kind, FALSE, 0)]
    /\ UNCHANGED <<recording, recordingId, error, loading, recorder, recorded>>

\* handleStartRecording after its await: on success the flags, on a non-2xx
\* answer or a rejected fetch the error.
startSettlesSettingFlags(i) ==
    /\ requests[i].kind = "start" /\ requests[i].phase = "answered"
    /\ requests' = [requests EXCEPT ![i] = NoRequest]
    /\ recording' = TRUE
    /\ recordingId' = requests[i].session_id
    /\ IF requests[i].ok
       THEN pageOp' = "startOk" /\ UNCHANGED error
       ELSE pageOp' = "startFailed" /\ error' = "Start session failed"
    /\ UNCHANGED <<loading, recorder, recorded>>

startSettles(i) ==
    /\ requests[i].kind = "start" /\ requests[i].phase = "answered"
    /\ requests' = [requests EXCEPT ![i] = NoRequest]
    /\ IF requests[i].ok
       THEN /\ pageOp' = "startOk"
            /\ recording' = TRUE
            /\ recordingId' = requests[i].session_id
            /\ UNCHANGED error
       ELSE /\ pageOp' = "startFailed"
            /\ error' = "Start session failed"
            /\ UNCHANGED <<recording, recordingId>>
    /\ UNCHANGED <<loading, recorder, recorded>>

\* handleStopRecording after its await: on success the flags and
\* loadSessions(), otherwise the error.
stopSettles(i) ==
    /\ requests[i].kind = "stop" /\ requests[i].phase = "answered"
    /\ IF requests[i].ok
       THEN /\ pageOp' = "stopOk"
            /\ recording' = FALSE
            /\ recordingId' = 0
            /\ error' = "null"
            /\ requests' = [requests EXCEPT ![i] = Sent("load")]
       ELSE /\ pageOp' = "stopFailed"
            /\ error' = "Stop session failed"
            /\ requests' = [requests EXCEPT ![i] = NoRequest]
            /\ UNCHANGED <<recording, recordingId>>
    /\ UNCHANGED <<loading, recorder, recorded>>

\* loadSessions() after its await: the list or the error, and loading off.
loadSessionsSettles(i) ==
    /\ requests[i].kind = "load" /\ requests[i].phase = "answered"
    /\ pageOp' = IF requests[i].ok THEN "loadOk" ELSE "loadFailed"
    /\ requests' = [requests EXCEPT ![i] = NoRequest]
    /\ error' = IF requests[i].ok THEN error ELSE "Fetch sessions failed"
    /\ loading' = FALSE
    /\ UNCHANGED <<recording, recordingId, recorder, recorded>>

(***************************************************************************)
(* useStream: one StreamClient per run of the effect.  The client          *)
(* variables describe the client of the latest run; a client whose cleanup *)
(* has run is disposed for good, and of it only its socket lives on.       *)
(***************************************************************************)
Urls == {"ws://a/ws", "ws://b/ws", "bad"}
OptionsFor(url) == [DefaultOptions EXCEPT !.urlOk = (url # "bad")]

InitHookVars ==
    /\ mounted = FALSE
    /\ wsUrl = "ws://a/ws"
    /\ abandoned = {}
    /\ effects = 0
    /\ abandonedDelivered = FALSE

\* The sockets after the cleanup of the running client, if there is one:
\* client.disconnect() closes the socket the client holds.
cleanupWithoutDisconnect == sock

cleanup ==
    IF mounted
    THEN [s \in Slots |-> IF s = ws /\ sock[s] \in {"CONNECTING", "OPEN"}
                          THEN "CLOSING" ELSE sock[s]]
    ELSE sock

\* The effect of useStream, on mount and when wsUrl changes: the cleanup of
\* the previous run, then new StreamClient({url, ...}) and client.connect().
useStreamEffect(url, maxEffects) ==
    LET closed == cleanup
        free == CHOOSE s \in Slots :
                    closed[s] = "CLOSED" /\ \A t \in Slots : closed[t] = "CLOSED" => s <= t
        opts == OptionsFor(url)
    IN  /\ ~mounted \/ url # wsUrl
        /\ effects < maxEffects
        /\ \E s \in Slots : closed[s] = "CLOSED"
        /\ mounted' = TRUE
        /\ wsUrl' = url
        /\ effects' = effects + 1
        /\ abandoned' = abandoned \cup { s \in Slots : sock[s] # "CLOSED" }
        /\ UNCHANGED abandonedDelivered
        /\ lastOp' = "connect"
        /\ options' = opts
        /\ disposed' = FALSE
        /\ staleTimer' = "null"
        /\ attemptFlip' = ~attemptFlip
        /\ IF opts.urlOk
           THEN /\ sock' = [closed EXCEPT ![free] = "CONNECTING"]
                /\ ws' = free
                /\ status' = "connecting"
                /\ reconnectTimer' = "null"
                /\ reconnectDelay' = 0
                /\ reconnectAttempts' = 0
                /\ consecFailures' = 0
                /\ pendingCloses' = 0
           ELSE /\ sock' = closed
                /\ ws' = 0
                /\ status' = "disconnected"
                /\ reconnectTimer' = "armed"
                /\ reconnectDelay' = Min(opts.reconnectMinMs, opts.reconnectMaxMs)
                /\ reconnectAttempts' = 1
                /\ consecFailures' = 1
                /\ pendingCloses' = 1
        /\ lastSeq' = 0
        /\ lastMessageTs' = 0
        /\ messagesReceived' = 0
        /\ parseErrors' = 0
        /\ seqGaps' = 0
        /\ lastFrame' = NoFrame
        /\ prevFrameBad' = FALSE
        /\ stepOne' = TRUE
        /\ UNCHANGED <<deliveredCount, lastDelivered>>

\* The cleanup of the effect on unmount: client.disconnect().
useStreamCleanup ==
    /\ mounted
    /\ mounted' = FALSE
    /\ abandoned' = abandoned \cup { s \in Slots : sock[s] # "CLOSED" }
    /\ UNCHANGED <<wsUrl, effects, abandonedDelivered>>
    /\ disconnect

\* A message event on socket s.  On the socket of a client whose cleanup has
\* run, the handlers of that client run: its handleMessage hands a valid
\* envelope to the same onMessage (the store's handleMessage).
hookOnmessage(s, f, maxFrames, maxEffects) ==
    IF s \in abandoned
    THEN /\ sock[s] = "OPEN"
         /\ f.kind = "ok"
         /\ deliveredCount < maxFrames * maxEffects
         /\ deliveredCount' = deliveredCount + 1
         /\ lastDelivered' = f.seq
         /\ abandonedDelivered' = TRUE
         /\ UNCHANGED <<options, ws, sock, reconnectAttempts, reconnectTimer, reconnectDelay,
                        staleTimer, status, lastSeq, lastMessageTs, messagesReceived,
                        parseErrors, seqGaps, disposed, lastOp, lastFrame, prevFrameBad,
                        stepOne, consecFailures, pendingCloses, attemptFlip>>
         /\ UNCHANGED <<mounted, wsUrl, abandoned, effects>>
    ELSE /\ onmessage(s, f, maxFrames)
         /\ UNCHANGED hookVars

\* The close event of socket s.  The client of an abandoned socket is
\* disposed and 'disconnected': its onclose changes nothing and
\* scheduleReconnect() returns.
hookOnclose(s, maxAttempts) ==
    IF s \in abandoned
    THEN /\ sock[s] # "CLOSED"
         /\ sock' = [sock EXCEPT ![s] = "CLOSED"]
         /\ abandoned' = abandoned \ {s}
         /\ UNCHANGED <<options, ws, reconnectAttempts, reconnectTimer, reconnectDelay,
                        staleTimer, status, disposed, lastOp, consecFailures, pendingCloses,
                        attemptFlip>>
         /\ UNCHANGED msgVars
         /\ UNCHANGED <<mounted, wsUrl, effects, abandonedDelivered>>
    ELSE /\ onclose(s, maxAttempts)
         /\ UNCHANGED hookVars

(***************************************************************************)
(* ReplayEngine feeding the store: onMessage is the store's handleMessage  *)
(* (ReplayPage).                                                           *)
(***************************************************************************)
InitSeekVars == sought = -1

\* The envelope of a pack message.
PackEnvelope(m) ==
    CASE m.type = "position_update" ->
           Envelope("position_update", m.ts_ms, "S1", TRUE,
                    [positions |-> <<FreshPosition("A1", m.ts_ms)>>])
      [] m.type = "event" ->
           Envelope("event", m.ts_ms, "S1", TRUE,
                    [event_kind |-> "CROSSING", athlete_id |-> "A1"])
      [] OTHER ->
           Envelope("start_line_definition", m.ts_ms, "S1", TRUE,
                    [gate_length_m |-> 523, quality |-> "GOOD"])

\* The store after onMessage(msgs[i]) for the indices i of idxs, in order.
RECURSIVE ApplyAll(_, _, _, _)
ApplyAll(st, msgs, idxs, t) ==
    IF idxs = << >> THEN st
    ELSE ApplyAll(handleMessageStore(st, PackEnvelope(msgs[Head(idxs) + 1]), t),
                  msgs, Tail(idxs), t)

\* What the claim expects after a seek: messages[0..idx] applied to an empty store.
Rebuilt(msgs, idx, t) == ApplyAll(InitialStore, msgs, Range(0, idx + 1), t)

\* The parts of the store a replay shows.
Shown(st) == [athletes |-> st.athletes, startLine |-> st.startLine,
              events |-> st.events, deviceHealth |-> st.deviceHealth]

\* The store takes the messages the engine handed over in this step.
onMessageAll(handed) ==
    /\ msgCount + Len(handed) <= MaxReplayed
    /\ msgCount' = msgCount + Len(handed)
    /\ storeOp' = "replay"
    /\ storeThrew' = FALSE
    /\ store' = ApplyAll(store, messages, handed, now)
    /\ UNCHANGED now

\* The messages tick() hands over in a step that leaves this.messages alone.
TickHanded(from) == Range(from, state'.currentIndex)

\* seek(ts) with the store behind onMessage: messages[0..idx], then, when the
\* engine was playing, what the tick() at the end of seek hands over.
seekToStore(ts) ==
    LET targetTs == Max(state.startTs, Min(ts, state.endTs))
        idx == SeekIndex(messages, targetTs)
    IN  /\ seek(ts)
        /\ sought' = IF messages = << >> THEN -1 ELSE idx
        /\ onMessageAll(IF messages = << >> THEN << >>
                        ELSE Range(0, idx + 1)
                             \o (IF state.status = "playing" THEN TickHanded(idx) ELSE << >>))

playToStore ==
    /\ play
    /\ sought' = -1
    /\ onMessageAll(IF state.status \in {"ready", "paused"} THEN TickHanded(state.currentIndex)
                    ELSE IF state.status = "ended" THEN TickHanded(0)
                    ELSE << >>)

animationFrameToStore(dt) ==
    /\ animationFrame(dt)
    /\ sought' = -1
    /\ onMessageAll(TickHanded(state.currentIndex))

(***************************************************************************)
(* AlertToast: toasts for the events of the store.                         *)
(***************************************************************************)
InitToastVars ==
    /\ toasts = << >>
    /\ lastEventCount = 0
    /\ toastsCreated = 0
    /\ toastClock = 0
    /\ unseen = 0

\* An event message reaches the store; the component has not rendered yet.
toastEvent(maxUnseen) ==
    /\ unseen < maxUnseen
    /\ unseen' = unseen + 1
    /\ StoreHandleMessage(Envelope("event", msgCount + 1, "S1", TRUE,
                                   [event_kind |-> "CROSSING", athlete_id |-> "A1"]),
                          EVENTS_TAIL + 1 + ToastExtra)
    /\ UNCHANGED <<toasts, lastEventCount, toastsCreated, toastClock>>

\* The effect watching events: toasts for events.slice(lastEventCount), the
\* last MAX_TOASTS kept, and lastEventCount = events.length.
toastEffect ==
    /\ unseen > 0
    /\ unseen' = 0
    /\ LET newEvents == SubSeq(store.events, lastEventCount + 1, Len(store.events))
           newToasts == [i \in 1..Len(newEvents) |->
                            [event |-> newEvents[i], createdAt |-> toastClock + 1]]
       IN  IF Len(store.events) > lastEventCount
           THEN /\ toasts' = SliceLast(toasts \o newToasts, MAX_TOASTS)
                /\ toastsCreated' = toastsCreated + Len(newToasts)
                /\ toastClock' = toastClock + 1
           ELSE UNCHANGED <<toasts, toastsCreated, toastClock>>
    /\ lastEventCount' = Len(store.events)
    /\ UNCHANGED storeVars

\* The auto-dismiss interval: the toasts older than TOAST_DURATION_MS go,
\* those created by the runs of the effect up to run c.
toastExpire(c) ==
    /\ \E i \in DOMAIN toasts : toasts[i].createdAt <= c
    /\ toasts' = SelectSeq(toasts, LAMBDA t : t.createdAt > c)
    /\ UNCHANGED <<lastEventCount, toastsCreated, toastClock, unseen>>
    /\ UNCHANGED storeVars

\* dismiss(id): a click on toast i.
dismiss(i) ==
    /\ i \in DOMAIN toasts
    /\ toasts' = [k \in 1..(Len(toasts) - 1) |-> IF k < i THEN toasts[k] ELSE toasts[k + 1]]
    /\ UNCHANGED <<lastEventCount, toastsCreated, toastClock, unseen>>
    /\ UNCHANGED storeVars

(***************************************************************************)
(* RankingBoard: the list it renders from the store.                       *)
(***************************************************************************)
BoardAthletes == <<"A1", "A2", "A3">>
SortColumns == {"rank", "name", "status", "dist_to_line_m", "eta_to_line_s", "sog_kn",
                "avg_sog_kn", "cog_deg", "data_age_ms", "team"}
FilterTexts == {"", "a1", "hksi", "zz"}

\* The place of a string among the strings the board compares with < and >.
StringOrder == <<"A1", "A2", "A3", "APPROACHING", "CROSSED", "OCS", "RISK", "SAFE", "STALE">>
StringRank(str) == CHOOSE i \in DOMAIN StringOrder : StringOrder[i] = str

Abs(x) == IF x < 0 THEN -x ELSE x
OrElse(x, d) == IF x = Null THEN d ELSE x

\* getSortValue(athlete, key)
getSortValue(athlete, key) ==
    CASE key = "rank" -> Abs(OrElse(athlete.dist_to_line_m, 9999))
      [] key = "name" -> StringRank(athlete.name)
      [] key = "status" -> StringRank(athlete.status)
      [] key = "dist_to_line_m" -> Abs(OrElse(athlete.dist_to_line_m, 9999))
      [] key = "eta_to_line_s" -> OrElse(athlete.eta_to_line_s, 9999)
      [] key = "sog_kn" -> OrElse(athlete.sog_kn, 0)
      [] key = "avg_sog_kn" -> OrElse(athlete.avg_sog_kn, 0)
      [] key = "cog_deg" -> OrElse(athlete.cog_deg, 0)
      [] key = "data_age_ms" -> athlete.data_age_ms
      [] OTHER -> StringRank(athlete.name)

\* The comparator of list.sort.
compareIgnoringPinned(st, a, b) ==
    LET va == getSortValue(st.athletes[a], st.sortColumn)
        vb == getSortValue(st.athletes[b], st.sortColumn)
    IN  IF va < vb THEN (IF st.sortAscending THEN -1 ELSE 1)
        ELSE IF va > vb THEN (IF st.sortAscending THEN 1 ELSE -1)
        ELSE 0

compare(st, a, b) ==
    LET va == getSortValue(st.athletes[a], st.sortColumn)
        vb == getSortValue(st.athletes[b], st.sortColumn)
    IN  IF st.athletes[a].pinned # st.athletes[b].pinned
        THEN (IF st.athletes[a].pinned THEN -1 ELSE 1)
        ELSE IF va < vb THEN (IF st.sortAscending THEN -1 ELSE 1)
        ELSE IF va > vb THEN (IF st.sortAscending THEN 1 ELSE -1)
        ELSE 0

\* Array.prototype.sort with that comparator: a stable sort, here by insertion.
RECURSIVE Insert(_, _, _)
Insert(st, list, a) ==
    IF list = << >> THEN <<a>>
    ELSE IF compare(st, a, list[Len(list)]) < 0
         THEN Append(Insert(st, SubSeq(list, 1, Len(list) - 1), a), list[Len(list)])
         ELSE Append(list, a)

RECURSIVE Sort(_, _)
Sort(st, list) ==
    IF list = << >> THEN << >>
    ELSE Insert(st, Sort(st, SubSeq(list, 1, Len(list) - 1)), list[Len(list)])

\* The filter: name, team or athlete_id contains the text, case ignored.
Includes(a, text) ==
    \/ text = ""
    \/ text = "hksi"
    \/ text = "a1" /\ a = "A1"

\* The memo `sorted`: Object.values(athletes), filtered, sorted.
BoardList(st) ==
    Sort(st, SelectSeq(BoardAthletes,
                       LAMBDA a : a \in DOMAIN st.athletes /\ Includes(a, st.filterText)))

\* What the relay has told the store about an athlete.
BoardProfiles ==
    { [sog |-> 50, dist |-> -5, eta |-> 3, status |-> "RISK"],
      [sog |-> Null, dist |-> 3, eta |-> Null, status |-> "CROSSED"],
      [sog |-> 30, dist |-> Null, eta |-> Null, status |-> "SAFE"] }

\* The store after a position_update and a gate_metrics for the athletes of prof.
BoardStore(prof) ==
    LET ids == SelectSeq(BoardAthletes, LAMBDA a : a \in DOMAIN prof)
        positions == [i \in DOMAIN ids |-> PositionEntry(ids[i], 22, prof[ids[i]].sog, 0, 0)]
        metrics == [i \in DOMAIN ids |->
                       GateMetricEntry(ids[i], prof[ids[i]].status, prof[ids[i]].dist,
                                       prof[ids[i]].eta)]
        st1 == handleMessageStore(InitialStore,
                                  Envelope("position_update", 0, "S1", TRUE,
                                           [positions |-> positions]), 0)
    IN  handleMessageStore(st1, Envelope("gate_metrics", 0, "S1", TRUE,
                                         [metrics |-> metrics]), 0)

InitBoardVars == sorted = << >>

\* setSortColumn(col)
setSortColumnStore(st, col) ==
    [st EXCEPT !.sortColumn = col,
               !.sortAscending = IF st.sortColumn = col THEN ~st.sortAscending ELSE TRUE]

\* setFilterText(text)
setFilterTextStore(st, text) == [st EXCEPT !.filterText = text]

\* A store action of the board and the render that follows it.
boardAction(newStore, op) ==
    /\ store' = newStore
    /\ storeOp' = op
    /\ storeThrew' = FALSE
    /\ sorted' = BoardList(newStore)
    /\ UNCHANGED <<now, msgCount>>

handleSort(col) == boardAction(setSortColumnStore(store, col), "setSortColumn")
boardTogglePin(id) == boardAction(togglePinStore(store, id), "togglePin")
boardFilter(text) == boardAction(setFilterTextStore(store, text), "setFilterText")

InitResetVars == failuresAtOpen = -1

\* The observer of opens: how many failures in a row the open ended.
ObserveOpen ==
    failuresAtOpen' = IF lastOp' = "onopen" THEN consecFailures ELSE failuresAtOpen

InitOthers ==
    /\ InitRelayVars /\ InitPageIdle /\ InitHookVars /\ InitSeekVars /\ InitToastVars
    /\ InitBoardVars /\ InitResetVars

\* What the relay may send next on connection s.
RelayFrames(s) == { f \in OkFrames : f.seq > lastSent[s] }

\* A socket created in this step is a connection nothing was sent on.
Born(s) == sock[s] = "CLOSED" /\ sock'[s] # "CLOSED"

NewConnections ==
    /\ lastSent' = [s \in Slots |-> IF Born(s) THEN 0 ELSE lastSent[s]]
    /\ connDelivered' = [s \in Slots |-> IF Born(s) THEN 0 ELSE connDelivered[s]]
    /\ lastConn' = IF lastConn # 0 /\ Born(lastConn) THEN 0 ELSE lastConn

\* The relay sends its next envelope on connection s and ws.onmessage runs.
relaySends(s, f) ==
    /\ f \in RelayFrames(s)
    /\ onmessage(s, f, MaxFrames)
    /\ lastSent' = [lastSent EXCEPT ![s] = f.seq]
    /\ connDelivered' = IF deliveredCount' # deliveredCount
                        THEN [connDelivered EXCEPT ![s] = lastDelivered']
                        ELSE connDelivered
    /\ lastConn' = s

\* Connection level: the life cycle of the sockets and the timers, with one
\* rejected and one accepted frame.
LifecycleFrames == { [kind |-> "notJson", seq |-> 0, throws |-> FALSE],
                     [kind |-> "ok", seq |-> 1, throws |-> FALSE] }

InitStream ==
    /\ InitClient({ DefaultOptions, [DefaultOptions EXCEPT !.urlOk = FALSE] })
    /\ InitStoreVars
    /\ InitReplayVars
    /\ InitOthers

NextStream ==
    \/ connect(MaxAttempts, MaxSockets) /\ UNCHANGED <<storeVars, replayVars, otherVars>>
    \/ disconnect /\ UNCHANGED <<storeVars, replayVars, otherVars>>
    \/ \E s \in Slots : onopen(s) /\ UNCHANGED <<storeVars, replayVars, otherVars>>
    \/ \E s \in Slots, f \in LifecycleFrames : onmessage(s, f, StreamFrames) /\ UNCHANGED <<storeVars, replayVars, otherVars>>
    \/ \E s \in Slots : onclose(s, MaxAttempts) /\ UNCHANGED <<storeVars, replayVars, otherVars>>
    \/ reconnectTimerFires(MaxAttempts) /\ UNCHANGED <<storeVars, replayVars, otherVars>>
    \/ staleTimerFires /\ UNCHANGED <<storeVars, replayVars, otherVars>>

SpecStream == InitStream /\ [][NextStream]_vars

\* A timer that is armed and not cleared runs its callback.
SpecStreamLive ==
    SpecStream
    /\ WF_vars(reconnectTimerFires(MaxAttempts) /\ UNCHANGED <<storeVars, replayVars, otherVars>>)

\* Frame level: every kind of frame, few reconnects.
InitFrames == InitClient({ DefaultOptions }) /\ InitStoreVars /\ InitReplayVars /\ InitOthers

NextFrames ==
    \/ connect(FramesAttempts, FramesSockets) /\ UNCHANGED <<storeVars, replayVars, otherVars>>
    \/ disconnect /\ UNCHANGED <<storeVars, replayVars, otherVars>>
    \/ \E s \in Slots : onopen(s) /\ UNCHANGED <<storeVars, replayVars, otherVars>>
    \/ \E s \in Slots, f \in Frames : onmessage(s, f, MaxFrames) /\ UNCHANGED <<storeVars, replayVars, otherVars>>
    \/ \E s \in Slots : onclose(s, FramesAttempts) /\ UNCHANGED <<storeVars, replayVars, otherVars>>
    \/ reconnectTimerFires(FramesAttempts) /\ UNCHANGED <<storeVars, replayVars, otherVars>>
    \/ staleTimerFires /\ UNCHANGED <<storeVars, replayVars, otherVars>>

SpecFrames == InitFrames /\ [][NextFrames]_vars

\* Backoff level: long runs of failed attempts under every choice of options.
InitBackoff == InitClient(OptionChoices) /\ InitStoreVars /\ InitReplayVars /\ InitOthers

NextBackoff ==
    \/ connect(BackoffAttempts, MaxSockets) /\ UNCHANGED <<storeVars, replayVars, otherVars>>
    \/ disconnect /\ UNCHANGED <<storeVars, replayVars, otherVars>>
    \/ \E s \in Slots : onopen(s) /\ UNCHANGED <<storeVars, replayVars, otherVars>>
    \/ \E s \in Slots, f \in LifecycleFrames : onmessage(s, f, BackoffFrames) /\ UNCHANGED <<storeVars, replayVars, otherVars>>
    \/ \E s \in Slots : onclose(s, BackoffAttempts) /\ UNCHANGED <<storeVars, replayVars, otherVars>>
    \/ reconnectTimerFires(BackoffAttempts) /\ UNCHANGED <<storeVars, replayVars, otherVars>>
    \/ staleTimerFires /\ UNCHANGED <<storeVars, replayVars, otherVars>>

SpecBackoff == InitBackoff /\ [][NextBackoff]_vars

\* The store alone, fed with every kind of envelope, from its initial state
\* and from the state after a first position_update.
InitStore ==
    /\ InitClient({ DefaultOptions })
    /\ store \in { InitialStore,
                    handleMessageStore(InitialStore,
                        Envelope("position_update", 0, "S1", TRUE,
                                 [positions |-> <<FreshPosition("A1", 0)>>]), 0) }
    /\ now = 0
    /\ storeOp = "create"
    /\ storeThrew = FALSE
    /\ msgCount = 0
    /\ InitReplayVars
    /\ InitOthers

NextStore ==
    \/ Tick /\ UNCHANGED <<streamVars, replayVars, otherVars>>
    \/ \E msg \in EnvelopesAt(now) : StoreHandleMessage(msg, MaxStoreMsgs) /\ UNCHANGED <<streamVars, replayVars, otherVars>>
    \/ StoreTogglePin("A1") /\ UNCHANGED <<streamVars, replayVars, otherVars>>
    \/ \E id \in {"A1", "null"} : StoreSelectAthlete(id) /\ UNCHANGED <<streamVars, replayVars, otherVars>>

SpecStore == InitStore /\ [][NextStore]_vars

\* The ring buffers: one athlete's positions and the events, numbered in
\* arrival order (lat and ts_ms carry the number), past the capacities.
InitRing == InitClient({ DefaultOptions }) /\ InitStoreVars /\ InitReplayVars /\ InitOthers

LastLat == IF "A1" \in DOMAIN store.athletes THEN store.athletes["A1"].lat ELSE 0
LastEventTs == IF store.events = << >> THEN 0 ELSE store.events[Len(store.events)].ts_ms
RingMsgs == MAX_TRACK_POINTS + EVENTS_TAIL + 1 + 2 * RingExtra

RingPosition ==
    /\ LastLat < MAX_TRACK_POINTS + RingExtra
    /\ StoreHandleMessage(Envelope("position_update", now, "S1", TRUE,
                                   [positions |-> <<PositionEntry("A1", LastLat + 1, 50, now, 0)>>]),
                          RingMsgs)

RingEvent ==
    /\ LastEventTs < EVENTS_TAIL + 1 + RingExtra
    /\ StoreHandleMessage(Envelope("event", LastEventTs + 1, "S1", TRUE,
                                   [event_kind |-> "CROSSING", athlete_id |-> "A1"]),
                          RingMsgs)

NextRing ==
    \/ RingPosition /\ UNCHANGED <<streamVars, replayVars, otherVars>>
    \/ RingEvent /\ UNCHANGED <<streamVars, replayVars, otherVars>>

SpecRing == InitRing /\ [][NextRing]_vars

\* The replay engine alone.
InitReplay == InitClient({ DefaultOptions }) /\ InitStoreVars /\ InitReplayVars /\ InitOthers

NextReplay ==
    \/ \E id \in Sessions : load(id) /\ UNCHANGED <<streamVars, storeVars, otherVars>>
    \/ \E id \in Sessions, outcome \in {"ok", "fails"} : loadSettles(id, outcome) /\ UNCHANGED <<streamVars, storeVars, otherVars>>
    \/ play /\ UNCHANGED <<streamVars, storeVars, otherVars>>
    \/ pause /\ UNCHANGED <<streamVars, storeVars, otherVars>>
    \/ \E speed \in Speeds : setSpeed(speed) /\ UNCHANGED <<streamVars, storeVars, otherVars>>
    \/ \E ts \in SeekTargets : seek(ts) /\ UNCHANGED <<streamVars, storeVars, otherVars>>
    \/ stop /\ UNCHANGED <<streamVars, storeVars, otherVars>>
    \/ \E dt \in FrameSteps : animationFrame(dt) /\ UNCHANGED <<streamVars, storeVars, otherVars>>
    \/ \E dt \in FrameSteps : orphanFrame(dt) /\ UNCHANGED <<streamVars, storeVars, otherVars>>

SpecReplay == InitReplay /\ [][NextReplay]_vars

\* The browser runs a requested animation frame unless it is cancelled.
SpecReplayLive ==
    SpecReplay
    /\ WF_vars(\E dt \in FrameSteps : animationFrame(dt) /\ UNCHANGED <<streamVars, storeVars, otherVars>>)

\* The client fed by the relay: sockets come and go, and on each one the
\* relay sends envelopes in seq order.
InitRelay == InitClient({ DefaultOptions }) /\ InitStoreVars /\ InitReplayVars /\ InitOthers

NextRelay ==
    \/ connect(FramesAttempts, FramesSockets) /\ NewConnections /\ UNCHANGED <<storeVars, replayVars, pageVars, hookVars, laterVars>>
    \/ disconnect /\ NewConnections /\ UNCHANGED <<storeVars, replayVars, pageVars, hookVars, laterVars>>
    \/ \E s \in Slots : onopen(s) /\ NewConnections /\ UNCHANGED <<storeVars, replayVars, pageVars, hookVars, laterVars>>
    \/ \E s \in Slots, f \in OkFrames : relaySends(s, f) /\ UNCHANGED <<storeVars, replayVars, pageVars, hookVars, laterVars>>
    \/ \E s \in Slots : onclose(s, FramesAttempts) /\ NewConnections /\ UNCHANGED <<storeVars, replayVars, pageVars, hookVars, laterVars>>
    \/ reconnectTimerFires(FramesAttempts) /\ NewConnections /\ UNCHANGED <<storeVars, replayVars, pageVars, hookVars, laterVars>>

SpecRelay == InitRelay /\ [][NextRelay]_vars

\* The Sessions page with the relay's recorder.
InitPage ==
    /\ InitClient({ DefaultOptions }) /\ InitStoreVars /\ InitReplayVars
    /\ InitRelayVars /\ InitPageVars /\ InitHookVars /\ InitSeekVars /\ InitToastVars /\ InitBoardVars /\ InitResetVars

NextPage ==
    \/ loadSessions /\ UNCHANGED <<streamVars, storeVars, replayVars, relayVars, hookVars, laterVars>>
    \/ handleStartRecording /\ UNCHANGED <<streamVars, storeVars, replayVars, relayVars, hookVars, laterVars>>
    \/ handleStopRecording /\ UNCHANGED <<streamVars, storeVars, replayVars, relayVars, hookVars, laterVars>>
    \/ \E i \in RequestSlots : relayAnswers(i) /\ UNCHANGED <<streamVars, storeVars, replayVars, relayVars, hookVars, laterVars>>
    \/ \E i \in RequestSlots : fetchRejects(i) /\ UNCHANGED <<streamVars, storeVars, replayVars, relayVars, hookVars, laterVars>>
    \/ \E i \in RequestSlots : startSettles(i) /\ UNCHANGED <<streamVars, storeVars, replayVars, relayVars, hookVars, laterVars>>
    \/ \E i \in RequestSlots : stopSettles(i) /\ UNCHANGED <<streamVars, storeVars, replayVars, relayVars, hookVars, laterVars>>
    \/ \E i \in RequestSlots : loadSessionsSettles(i) /\ UNCHANGED <<streamVars, storeVars, replayVars, relayVars, hookVars, laterVars>>

SpecPage == InitPage /\ [][NextPage]_vars

\* useStream at the application root: mounts, wsUrl changes, unmounts, and
\* the callbacks of the clients it creates.
InitHook ==
    /\ InitClient({ DefaultOptions }) /\ InitStoreVars /\ InitReplayVars
    /\ InitRelayVars /\ InitPageIdle /\ InitHookVars /\ InitSeekVars /\ InitToastVars /\ InitBoardVars /\ InitResetVars

NextHook ==
    \/ \E url \in Urls : useStreamEffect(url, MaxEffects)
          /\ UNCHANGED <<storeVars, replayVars, relayVars, pageVars, laterVars>>
    \/ useStreamCleanup /\ UNCHANGED <<storeVars, replayVars, relayVars, pageVars, laterVars>>
    \/ \E s \in Slots \ abandoned : onopen(s)
          /\ UNCHANGED <<storeVars, replayVars, relayVars, pageVars, hookVars, laterVars>>
    \/ \E s \in Slots, f \in LifecycleFrames : hookOnmessage(s, f, StreamFrames, MaxEffects)
          /\ UNCHANGED <<storeVars, replayVars, relayVars, pageVars, laterVars>>
    \/ \E s \in Slots : hookOnclose(s, MaxAttempts)
          /\ UNCHANGED <<storeVars, replayVars, relayVars, pageVars, laterVars>>
    \/ reconnectTimerFires(MaxAttempts)
          /\ UNCHANGED <<storeVars, replayVars, relayVars, pageVars, hookVars, laterVars>>
    \/ staleTimerFires
          /\ UNCHANGED <<storeVars, replayVars, relayVars, pageVars, hookVars, laterVars>>

SpecHook == InitHook /\ [][NextHook]_vars

\* ReplayPage: the engine with the store behind onMessage.
InitSeek == InitClient({ DefaultOptions }) /\ InitStoreVars /\ InitReplayVars /\ InitOthers

NextSeek ==
    \/ \E id \in Sessions : load(id) /\ sought' = -1
          /\ UNCHANGED <<streamVars, storeVars, relayVars, pageVars, hookVars, toastVars, boardVars, resetVars>>
    \/ \E id \in Sessions, o \in {"ok", "fails"} : loadSettles(id, o) /\ sought' = -1
          /\ UNCHANGED <<streamVars, storeVars, relayVars, pageVars, hookVars, toastVars, boardVars, resetVars>>
    \/ playToStore /\ UNCHANGED <<streamVars, relayVars, pageVars, hookVars, toastVars, boardVars, resetVars>>
    \/ pause /\ sought' = -1
          /\ UNCHANGED <<streamVars, storeVars, relayVars, pageVars, hookVars, toastVars, boardVars, resetVars>>
    \/ \E ts \in SeekTargets : seekToStore(ts)
          /\ UNCHANGED <<streamVars, relayVars, pageVars, hookVars, toastVars, boardVars, resetVars>>
    \/ \E dt \in FrameSteps : animationFrameToStore(dt)
          /\ UNCHANGED <<streamVars, relayVars, pageVars, hookVars, toastVars, boardVars, resetVars>>

SpecSeek == InitSeek /\ [][NextSeek]_vars

\* AlertToast over the store's events log.  At the start the log is short of
\* full by ToastRoom events; each of its events had its toast, and the toasts
\* have expired.
InitToast ==
    LET n == EVENTS_TAIL + 1 - ToastRoom
    IN  /\ InitClient({ DefaultOptions }) /\ InitReplayVars
        /\ InitRelayVars /\ InitPageIdle /\ InitHookVars /\ InitSeekVars /\ InitBoardVars /\ InitResetVars
        /\ store = [InitialStore EXCEPT
                       !.events = [i \in 1..n |-> [event_kind |-> "CROSSING",
                                                   athlete_id |-> "A1", ts_ms |-> i]]]
        /\ now = 0
        /\ storeOp = "event"
        /\ storeThrew = FALSE
        /\ msgCount = n
        /\ toasts = << >>
        /\ lastEventCount = n
        /\ toastsCreated = n
        /\ toastClock = n
        /\ unseen = 0

NextToast ==
    \/ toastEvent(MaxUnseen)
          /\ UNCHANGED <<streamVars, replayVars, relayVars, pageVars, hookVars, seekVars, boardVars, resetVars>>
    \/ toastEffect
          /\ UNCHANGED <<streamVars, replayVars, relayVars, pageVars, hookVars, seekVars, boardVars, resetVars>>
    \/ \E c \in 1..(EVENTS_TAIL + 1 + ToastExtra) : toastExpire(c)
          /\ UNCHANGED <<streamVars, replayVars, relayVars, pageVars, hookVars, seekVars, boardVars, resetVars>>
    \/ \E i \in 1..MAX_TOASTS : dismiss(i)
          /\ UNCHANGED <<streamVars, replayVars, relayVars, pageVars, hookVars, seekVars, boardVars, resetVars>>

SpecToast == InitToast /\ [][NextToast]_vars

\* RankingBoard over a store that holds up to three athletes.
InitBoard ==
    /\ InitClient({ DefaultOptions }) /\ InitReplayVars
    /\ InitRelayVars /\ InitPageIdle /\ InitHookVars /\ InitSeekVars /\ InitToastVars /\ InitResetVars
    /\ \E ids \in SUBSET {"A1", "A2", "A3"} :
          \E prof \in [ids -> BoardProfiles] : store = BoardStore(prof)
    /\ now = 0
    /\ storeOp = "gate_metrics"
    /\ storeThrew = FALSE
    /\ msgCount = 2
    /\ sorted = BoardList(store)

NextBoard ==
    \/ \E col \in SortColumns : handleSort(col)
          /\ UNCHANGED <<streamVars, replayVars, relayVars, pageVars, hookVars, seekVars, toastVars, resetVars>>
    \/ \E id \in {"A1", "A2", "A3"} : boardTogglePin(id)
          /\ UNCHANGED <<streamVars, replayVars, relayVars, pageVars, hookVars, seekVars, toastVars, resetVars>>
    \/ \E text \in FilterTexts : boardFilter(text)
          /\ UNCHANGED <<streamVars, replayVars, relayVars, pageVars, hookVars, seekVars, toastVars, resetVars>>

SpecBoard == InitBoard /\ [][NextBoard]_vars

\* Backoff level with the opens observed.
InitReset == InitClient(OptionChoices) /\ InitStoreVars /\ InitReplayVars /\ InitOthers

NextReset ==
    \/ connect(ResetAttempts, MaxSockets) /\ ObserveOpen
          /\ UNCHANGED <<storeVars, replayVars, relayVars, pageVars, hookVars, seekVars, toastVars, boardVars>>
    \/ disconnect /\ ObserveOpen
          /\ UNCHANGED <<storeVars, replayVars, relayVars, pageVars, hookVars, seekVars, toastVars, boardVars>>
    \/ \E s \in Slots : onopen(s) /\ ObserveOpen
          /\ UNCHANGED <<storeVars, replayVars, relayVars, pageVars, hookVars, seekVars, toastVars, boardVars>>
    \/ \E s \in Slots, f \in LifecycleFrames : onmessage(s, f, BackoffFrames) /\ ObserveOpen
          /\ UNCHANGED <<storeVars, replayVars, relayVars, pageVars, hookVars, seekVars, toastVars, boardVars>>
    \/ \E s \in Slots : onclose(s, ResetAttempts) /\ ObserveOpen
          /\ UNCHANGED <<storeVars, replayVars, relayVars, pageVars, hookVars, seekVars, toastVars, boardVars>>
    \/ reconnectTimerFires(ResetAttempts) /\ ObserveOpen
          /\ UNCHANGED <<storeVars, replayVars, relayVars, pageVars, hookVars, seekVars, toastVars, boardVars>>
    \/ staleTimerFires /\ ObserveOpen
          /\ UNCHANGED <<storeVars, replayVars, relayVars, pageVars, hookVars, seekVars, toastVars, boardVars>>

SpecReset == InitReset /\ [][NextReset]_vars

(***************************************************************************)
(* Claims about StreamClient                                               *)
(***************************************************************************)

\* C1 (as stated): when the stale timer of a connected client runs out, the
\* client reconnects, so its status is no longer 'connected'.
C1_StaleSilenceReconnects ==
    (lastOp = "staleTimer" /\ \E s \in Slots : sock[s] = "OPEN") => status # "connected"

\* C2: an accepted envelope increments seqGaps by one exactly when lastSeq > 0
\* and its seq exceeds lastSeq + 1, and leaves it alone otherwise; a stream
\* whose accepted envelopes go up in steps of one has seqGaps = 0.
C2_SeqGapRule ==
    /\ [][(lastOp' = "onmessage" /\ lastFrame'.kind = "ok")
            => seqGaps' = IF lastSeq > 0 /\ lastFrame'.seq > lastSeq + 1
                          THEN seqGaps + 1 ELSE seqGaps]_vars
    /\ [](stepOne => seqGaps = 0)

C2_Witness ==
    /\ lastOp = "onmessage" /\ lastFrame.kind = "ok"
    /\ messagesReceived >= 2 /\ seqGaps = 1 /\ ~stepOne

\* C5: once disconnect() was called no socket is created, no reconnect timer
\* is or becomes pending, and connect() changes nothing.
C5_DisconnectStopsReconnect ==
    /\ [](disposed => reconnectTimer # "armed")
    /\ [][disposed => /\ disposed'
                      /\ attemptFlip' = attemptFlip
                      /\ \A s \in Slots : sock'[s] = "CONNECTING" => sock[s] = "CONNECTING"
                      /\ reconnectTimer' # "armed"]_vars
    /\ [][(disposed /\ lastOp' = "connect")
            => UNCHANGED <<options, ws, sock, reconnectAttempts, reconnectTimer,
                           reconnectDelay, staleTimer, status, disposed, msgVars>>]_vars

C5_Witness ==
    /\ disposed /\ lastOp = "onclose" /\ reconnectTimer = "null"
    /\ \A s \in Slots : sock[s] = "CLOSED"

\* C6 (as stated): every close has a connection attempt of its own, so two
\* closes are never waiting for the same attempt.
C6_OneAttemptPerClose == pendingCloses <= 1

\* C6 (amended): while the client is not disposed a close or a constructor
\* failure arms the one reconnect timer, the timer's callback makes exactly
\* one attempt, and an armed timer is followed by an attempt (or by
\* disconnect()), however many attempts have failed.  The retries of the
\* model stop at MaxAttempts when the constructor throws.
C6_ReconnectLiveness ==
    /\ [][(lastOp' = "onclose" /\ ~disposed) => reconnectTimer' = "armed"]_vars
    /\ [][(lastOp' = "reconnectTimer")
            => /\ attemptFlip' # attemptFlip
               /\ options.urlOk => Cardinality({ s \in Slots : sock'[s] # "CLOSED" })
                                     = Cardinality(Live) + 1
               /\ ~options.urlOk => reconnectTimer' = "armed"]_vars
    /\ \A b \in BOOLEAN :
          (/\ ~disposed /\ reconnectTimer = "armed" /\ attemptFlip = b
           /\ (options.urlOk \/ reconnectAttempts < MaxAttempts))
             ~> (disposed \/ attemptFlip # b)

C6_Witness ==
    /\ ~disposed /\ lastOp = "reconnectTimer" /\ reconnectAttempts = MaxAttempts
    /\ pendingCloses = 0 /\ \E s \in Slots : sock[s] = "CONNECTING"

\* C7 (as stated): the delay after the k-th consecutive failure is
\* min(reconnectMinMs * 2^(k-1), reconnectMaxMs), within [reconnectMinMs,
\* reconnectMaxMs].
C7_DelayIsUncappedPower ==
    (reconnectTimer = "armed" /\ consecFailures >= 1)
      => /\ reconnectDelay = Min(options.reconnectMinMs * Pow2(consecFailures - 1),
                                 options.reconnectMaxMs)
         /\ reconnectDelay >= options.reconnectMinMs
         /\ reconnectDelay <= options.reconnectMaxMs

\* C7 (amended): the delay after the k-th consecutive failure is
\* min(reconnectMinMs * 2^min(k-1, 10), reconnectMaxMs); it lies within
\* [reconnectMinMs, reconnectMaxMs] and does not decrease while failures go on.
C7_BackoffDelay ==
    /\ [](reconnectTimer = "armed" /\ consecFailures >= 1
            => /\ reconnectDelay
                    = Min(options.reconnectMinMs
                            * Pow2(Min(consecFailures - 1, BackoffExponentCap)),
                          options.reconnectMaxMs)
               /\ reconnectDelay >= options.reconnectMinMs
               /\ reconnectDelay <= options.reconnectMaxMs)
    /\ [][(reconnectTimer' = "armed" /\ consecFailures >= 1
           /\ consecFailures' = consecFailures + 1)
            => reconnectDelay' >= reconnectDelay]_vars

C7_Witness ==
    /\ reconnectTimer = "armed" /\ consecFailures = BackoffAttempts
    /\ options.reconnectMinMs = 10 /\ reconnectDelay = 10240

\* C8: a frame that is not JSON or lacks type, schema_version or seq never
\* reaches onMessage, adds one to parseErrors and leaves lastSeq, seqGaps and
\* messagesReceived alone; a well-formed frame is accepted whatever came before.
C8_MalformedFrameDropped ==
    /\ [][(lastOp' = "onmessage" /\ lastFrame'.kind \in BadKinds)
            => /\ parseErrors' = parseErrors + 1
               /\ UNCHANGED <<lastSeq, seqGaps, messagesReceived, deliveredCount,
                              lastDelivered>>]_vars
    /\ [][(lastOp' = "onmessage" /\ lastFrame'.kind = "ok")
            => /\ lastSeq' = lastFrame'.seq
               /\ messagesReceived' = messagesReceived + 1
               /\ deliveredCount' = deliveredCount + 1
               /\ lastDelivered' = lastFrame'.seq]_vars

C8_Witness ==
    /\ lastOp = "onmessage" /\ prevFrameBad /\ lastFrame.kind = "ok"
    /\ parseErrors = 1 /\ messagesReceived = 1 /\ lastDelivered = lastFrame.seq

Regressed == {"SAFE", "APPROACHING", "RISK"}

\* C3 (as stated): once an athlete's status is CROSSED or OCS, no message
\* takes it to SAFE, APPROACHING or RISK.
C3_CrossingLatch ==
    [][\A a \in DOMAIN store.athletes :
          store.athletes[a].status \in {"CROSSED", "OCS"}
            => store'.athletes[a].status \notin Regressed]_vars

\* C9: handleMessage with a type outside MessageType changes no field of the
\* store and does not throw.
C9_UnknownTypeIgnored ==
    [][(msgCount' = msgCount + 1 /\ storeOp' \notin MessageType)
         => (store' = store /\ ~storeThrew')]_vars

C9_Witness ==
    /\ storeOp = "athlete_registry" /\ msgCount = 2
    /\ "A1" \in DOMAIN store.athletes /\ store.lastMessageTs < now

\* C10: a track never holds more than MAX_TRACK_POINTS points and the events
\* log never more than EVENTS_TAIL + 1 entries; an append to a full buffer
\* drops its oldest entry, keeps the others in order and puts the new one last.
C10_RingBuffers ==
    /\ [](/\ \A a \in DOMAIN store.athletes :
                Len(store.athletes[a].track) <= MAX_TRACK_POINTS
          /\ Len(store.events) <= EVENTS_TAIL + 1)
    /\ [][(storeOp' = "position_update" /\ msgCount' = msgCount + 1
           /\ "A1" \in DOMAIN store.athletes)
            => LET old == store.athletes["A1"].track
                   new == store'.athletes["A1"].track
               IN  /\ new[Len(new)].lat = LastLat + 1
                   /\ SubSeq(new, 1, Len(new) - 1)
                        = IF Len(old) = MAX_TRACK_POINTS THEN Tail(old) ELSE old]_vars
    /\ [][(storeOp' = "event" /\ msgCount' = msgCount + 1)
            => LET old == store.events
                   new == store'.events
               IN  /\ new[Len(new)].ts_ms = LastEventTs + 1
                   /\ SubSeq(new, 1, Len(new) - 1)
                        = IF Len(old) = EVENTS_TAIL + 1 THEN Tail(old) ELSE old]_vars

C10_Witness ==
    /\ "A1" \in DOMAIN store.athletes
    /\ Len(store.athletes["A1"].track) = MAX_TRACK_POINTS
    /\ store.athletes["A1"].track[1].lat = 3
    /\ Len(store.events) = EVENTS_TAIL + 1
    /\ store.events[1].ts_ms = 3

(***************************************************************************)
(* Claims about ReplayEngine                                               *)
(***************************************************************************)

\* What play() from 'ready' has given to onMessage so far: the indices
\* 0..currentIndex-1 once each and in order; at 'ended' that is every message.
CleanRunInOrder ==
    clean =>
        /\ state.status \in {"playing", "ended"}
        /\ dispatched = Range(0, state.currentIndex)
        /\ state.status = "ended" =>
              /\ dispatched = Range(0, Len(messages))
              /\ state.currentIndex = state.totalMessages
              /\ state.totalMessages = Len(messages)
              /\ state.currentTs = state.endTs

C12_DispatchedTsHasWallOffset ==
    \A k \in DOMAIN dispatched :
        LET pack == PackOf(CHOOSE id \in Sessions : PackOf(id) = messages)
        IN  Handed(dispatched[k]).ts_ms = pack[dispatched[k] + 1].ts_ms + SessionStartWallMs

\* C13 (as stated): at every moment an athlete of the table has status STALE
\* exactly when the wall clock is more than the stale threshold past the
\* athlete's last update.
C13_StaleIffSilent ==
    \A a \in DOMAIN store.athletes :
        (store.athletes[a].status = "STALE")
            <=> (now - store.athletes[a].last_update_ms > STALE_THRESHOLD_MS)

(***************************************************************************)
(* Claims about SessionsPage                                               *)
(***************************************************************************)

\* C14 (as stated): a failed start records an error and leaves
\* recording = false and recordingId = null.
C14_FailedStartLeavesNotRecording ==
    [][pageOp' = "startFailed" =>
           /\ error' # "null"
           /\ recording' = FALSE /\ recordingId' = 0]_vars

\* C14 (amended): a failed start or stop records an error and leaves recording
\* and recordingId as they were; the flags change only when a start or a stop
\* was answered with success.
C14_FlagsChangeOnlyOnSuccess ==
    [][/\ pageOp' \in {"startFailed", "stopFailed"} =>
              /\ error' # "null"
              /\ recording' = recording /\ recordingId' = recordingId
       /\ (recording' # recording \/ recordingId' # recordingId) =>
              pageOp' \in {"startOk", "stopOk"}
       /\ pageOp' = "startOk" =>
              /\ recording' = TRUE
              /\ \E i \in RequestSlots : requests[i] = Answered("start", TRUE, recordingId')
       /\ pageOp' = "stopOk" => recording' = FALSE /\ recordingId' = 0]_vars

\* Reached: a start answered 409 while the page shows no recording.
C14_Witness ==
    /\ pageOp = "startFailed"
    /\ recorder = "RECORDING"
    /\ ~recording /\ recordingId = 0 /\ error = "Start session failed"

(***************************************************************************)
(* Claims about useStream                                                  *)
(***************************************************************************)

\* C15 (as stated): at any time at most one WebSocket is not closed.
C15_OneSocketNotClosed == Cardinality({ s \in Slots : sock[s] # "CLOSED" }) <= 1

\* C15 (amended): at any time at most one WebSocket is connecting or open;
\* the sockets of clients whose cleanup has run are closing or closed (the
\* previous client is disconnected before the new one connects), and no
\* message of such a socket reaches onMessage.
C15_SingleIngestionConnection ==
    /\ Cardinality({ s \in Slots : sock[s] \in {"CONNECTING", "OPEN"} }) <= 1
    /\ \A s \in abandoned : sock[s] \in {"CLOSING", "CLOSED"}
    /\ \A s \in Slots : sock[s] \in {"CONNECTING", "OPEN"} => mounted /\ s = ws
    /\ ~abandonedDelivered

\* Reached: wsUrl changed while the first client's socket was open; the new
\* client's socket is open and has delivered while the old one is closing.
C15_Witness ==
    /\ effects >= 2
    /\ \E s \in abandoned : sock[s] = "CLOSING"
    /\ ws # 0 /\ sock[ws] = "OPEN"
    /\ deliveredCount >= 1 /\ messagesReceived >= 1

(***************************************************************************)
(* Claims about ReplayEngine and the store                                 *)
(***************************************************************************)

\* C16: after seek(ts) on a loaded session the store (athletes, tracks, start
\* line, events, device health) equals messages[0..idx] applied once, in
\* order, to an empty store, idx being the index seek found.
C16_SeekRebuildsState ==
    sought # -1 => Shown(store) = Shown(Rebuilt(messages, sought, now))

(***************************************************************************)
(* Claims about the position of ReplayEngine                               *)
(***************************************************************************)
SortedByTs(msgs) == \A i \in 1..(Len(msgs) - 1) : msgs[i].ts_ms <= msgs[i + 1].ts_ms

\* C17: with a session loaded (ready, playing, paused or ended) whose messages
\* are in non-decreasing ts_ms order, 0 <= currentIndex <= totalMessages and
\* startTs <= currentTs <= endTs, so progress lies in [0, 1]; a seek leaves
\* currentTs within [startTs, endTs] whatever timestamp was asked for.
C17_PositionInvariants ==
    (state.status \in {"ready", "playing", "paused", "ended"} /\ SortedByTs(messages)) =>
        /\ 0 <= state.currentIndex /\ state.currentIndex <= state.totalMessages
        /\ state.startTs <= state.currentTs /\ state.currentTs <= state.endTs
        /\ 0 <= progress(state) /\ progress(state) <= 1000

\* Reached: a sorted pack is loaded and a seek beyond its end has left the
\* position at the end.
C17_Witness ==
    /\ state.status = "ended" /\ messages = PackOf("S1")
    /\ state.currentTs = state.endTs /\ state.currentIndex = Len(messages) - 1
    /\ progress(state) = 1000

(***************************************************************************)
(* Claims about AlertToast                                                 *)
(***************************************************************************)

\* C18: once the effect has seen the events log, one toast has been created
\* for every event applied to the store, however many came before; the
\* visible list never holds more than MAX_TOASTS toasts, the newest ones.
C18_OneToastPerEvent ==
    /\ Len(toasts) <= MAX_TOASTS
    /\ unseen = 0 => toastsCreated = msgCount

(***************************************************************************)
(* Claims about RankingBoard                                               *)
(***************************************************************************)

\* C19: in the rendered list every pinned athlete precedes every unpinned
\* one, for every sort column and both directions; within the pinned and
\* within the unpinned athletes the order follows the sort value of the
\* selected column, ascending or descending as sortAscending says.  The list
\* holds each athlete passing the filter once.
C19_RankingOrder ==
    /\ \A i, j \in DOMAIN sorted :
          i < j =>
            LET a == store.athletes[sorted[i]]
                b == store.athletes[sorted[j]]
                va == getSortValue(a, store.sortColumn)
                vb == getSortValue(b, store.sortColumn)
            IN  /\ b.pinned => a.pinned
                /\ a.pinned = b.pinned =>
                      IF store.sortAscending THEN va <= vb ELSE va >= vb
    /\ \A i, j \in DOMAIN sorted : i # j => sorted[i] # sorted[j]
    /\ { sorted[i] : i \in DOMAIN sorted }
         = { a \in DOMAIN store.athletes : Includes(a, store.filterText) }

\* Reached: three athletes, descending by speed, the slowest one pinned and
\* first, the other two in descending order of differing values.
C19_Witness ==
    /\ Len(sorted) = 3
    /\ store.sortColumn = "sog_kn" /\ ~store.sortAscending
    /\ store.athletes[sorted[1]].pinned
    /\ ~store.athletes[sorted[2]].pinned /\ ~store.athletes[sorted[3]].pinned
    /\ getSortValue(store.athletes[sorted[1]], "sog_kn")
         < getSortValue(store.athletes[sorted[3]], "sog_kn")
    /\ getSortValue(store.athletes[sorted[2]], "sog_kn")
         > getSortValue(store.athletes[sorted[3]], "sog_kn")

(***************************************************************************)
(* Claims about the backoff after an open                                  *)
(***************************************************************************)

\* C20: ws.onopen sets the reconnect attempt counter to 0, so the first
\* reconnect scheduled after an open waits reconnectMinMs, however many
\* failures came before that open.
C20_BackoffReset ==
    /\ [][lastOp' = "onopen" => reconnectAttempts' = 0]_vars
    /\ [][(failuresAtOpen >= 0 /\ consecFailures = 0 /\ consecFailures' = 1
           /\ reconnectTimer' = "armed")
            => /\ reconnectDelay' = options.reconnectMinMs
               /\ reconnectAttempts' = 1]_vars

\* Reached: an open after ResetAttempts failures in a row, then a close whose
\* reconnect waits reconnectMinMs.
C20_Witness ==
    /\ failuresAtOpen = ResetAttempts
    /\ lastOp = "onclose" /\ consecFailures = 1
    /\ reconnectTimer = "armed" /\ reconnectDelay = options.reconnectMinMs

(***************************************************************************)
(* Claims about the athletes map                                           *)
(***************************************************************************)
GateFields == {"dist_to_line_m", "eta_to_line_s", "speed_to_line_mps", "status",
               "position_quality"}
WithoutGateFields(athlete) == [f \in (DOMAIN athlete) \ GateFields |-> athlete[f]]

\* C21: an athlete entry appears only with a position_update, with status
\* SAFE, null gate fields, not pinned and not selected; a gate_metrics message
\* creates no entry, also for an athlete_id the store does not know, and
\* changes nothing of a known athlete but dist_to_line_m, eta_to_line_s,
\* speed_to_line_mps, status and position_quality.
C21_AthletesOnlyFromPositions ==
    /\ [][(DOMAIN store'.athletes # DOMAIN store.athletes)
            => /\ storeOp' = "position_update" /\ msgCount' = msgCount + 1
               /\ DOMAIN store.athletes \subseteq DOMAIN store'.athletes
               /\ \A a \in (DOMAIN store'.athletes) \ (DOMAIN store.athletes) :
                     /\ store'.athletes[a].status = "SAFE"
                     /\ store'.athletes[a].dist_to_line_m = Null
                     /\ store'.athletes[a].eta_to_line_s = Null
                     /\ store'.athletes[a].speed_to_line_mps = Null
                     /\ store'.athletes[a].position_quality = Null
                     /\ ~store'.athletes[a].pinned /\ ~store'.athletes[a].selected]_vars
    /\ [][(storeOp' = "gate_metrics" /\ msgCount' = msgCount + 1)
            => /\ DOMAIN store'.athletes = DOMAIN store.athletes
               /\ \A a \in DOMAIN store.athletes :
                     WithoutGateFields(store'.athletes[a])
                       = WithoutGateFields(store.athletes[a])]_vars

\* Reached: gate first.  A gate_metrics message with entries was applied to a
\* store that knows no athlete, and the store still knows none.
C21_Witness ==
    /\ msgCount = 1 /\ storeOp = "gate_metrics" /\ ~storeThrew
    /\ DOMAIN store.athletes = {}

(***************************************************************************)
(* Claims about the recording indicator                                    *)
(***************************************************************************)

\* C22: after every start or stop request of the Sessions page that has
\* completed, the page's recording flag is true exactly when the relay's
\* recorder is RECORDING, also when the page was opened during a recording.
C22_IndicatorAgreesWithRecorder ==
    pageOp \in {"startOk", "startFailed", "stopOk", "stopFailed"}
        => (recording <=> recorder = "RECORDING")

====
